---- MODULE Spec2Model ----
(***************************************************************************)
(* Calificame: the API of the teacher-evaluation-report application.       *)
(* Three deployments of the same API live in the repository:               *)
(*   "pages"      functions/api/[[route]].js  (Cloudflare Pages Function)  *)
(*   "pagesFixed" unnamed/part_001            (the same with list routes)  *)
(*   "worker"     unnamed/part_000            (the Cloudflare Worker)      *)
(* The state is the D1 database of schema.sql; one action per handler.     *)
(* Spec serves the requests one after the other, each from its first       *)
(* statement to its response; StepSpec serves two requests at a time, one  *)
(* store statement per step, and lets the store fail; LegacySpec starts    *)
(* from a store with a report row that these handlers did not write.       *)
(* A path is the sequence of its segments after the leading '/api' has     *)
(* been removed: "/reports/r1" is <<"reports", "r1">>.                     *)
(***************************************************************************)
EXTENDS Integers, Sequences, FiniteSets, TLC

VARIABLES variant, users, lists, listSeq, reports, uuids, issued, calls

vars == <<variant, users, lists, listSeq, reports, uuids, issued, calls>>

Variants == {"pages", "pagesFixed", "worker"}

\* ------------------------------------------------------------------ bounds
MaxUuids == 2
MaxLists == 1
MaxReports == 1

\* ------------------------------------------------------- JavaScript values
\* A JavaScript string is a TLA+ string; UNDEF stands for a property the
\* JSON body does not have (undefined), SQLNULL for SQL NULL / JS null in a row.
UNDEF == "<undefined>"
SQLNULL == "<null>"

\* A structured value of a JSON body: {} is JObj(0), {"a":1} is JObj(1),
\* {"tituloEvaluacion":"Tn","nombreEstudiante":"En"} is JObj(n) for n > 1,
\* [] is JArr(0), [n] is JArr(n).
Undefined == [t |-> "undefined", n |-> 0]
JNull == [t |-> "null", n |-> 0]
JNum(n) == [t |-> "number", n |-> n]
JObj(n) == [t |-> "object", n |-> n]
JArr(n) == [t |-> "array", n |-> n]
SyntaxError == [t |-> "SyntaxError", n |-> 0]

JsonValues == {JNull} \cup UNION {{JNum(n), JObj(n), JArr(n)} : n \in 0..2}

\* x is truthy (the left operand of || is kept)
Truthy(v) == \/ v.t \in {"object", "array"}
             \/ v.t = "number" /\ v.n # 0

\* a || b
OrElse(a, b) == IF Truthy(a) THEN a ELSE b

\* s || d for strings: undefined, null and "" are falsy
StrOrElse(s, d) == IF s \in {UNDEF, SQLNULL, ""} THEN d ELSE s

JSON_stringify(v) ==
  CASE v.t = "undefined" -> UNDEF
    [] v.t = "null" -> "null"
    [] v.t = "number" -> ToString(v.n)
    [] v.t = "object" -> IF v.n = 0 THEN "{}"
                         ELSE IF v.n = 1 THEN "{\"a\":1}"
                         ELSE "{\"tituloEvaluacion\":\"T" \o ToString(v.n)
                              \o "\",\"nombreEstudiante\":\"E" \o ToString(v.n) \o "\"}"
    [] v.t = "array" -> IF v.n = 0 THEN "[]" ELSE "[" \o ToString(v.n) \o "]"

\* JSON.parse(text): its argument is converted to a string first, so that
\* JSON.parse(null) is null; a text that is no JSON throws a SyntaxError.
JSON_parse(s) ==
  LET text == IF s = SQLNULL THEN "null" ELSE s
      hits == {v \in JsonValues : JSON_stringify(v) = text}
  IN IF hits = {} THEN SyntaxError ELSE CHOOSE v \in hits : TRUE

\* json_extract(text, '$.tituloEvaluacion') and json_extract(text, '$.nombreEstudiante'):
\* NULL when the text's value has no such member
json_extract(text, member) ==
  LET v == JSON_parse(text)
  IN IF v.t = "object" /\ v.n > 1
     THEN (IF member = "tituloEvaluacion" THEN "T" ELSE "E") \o ToString(v.n)
     ELSE SQLNULL

\* crypto.randomUUID(): the n-th UUID drawn
randomUUID(n) == "uuid" \o ToString(n)

\* parseInt(s): the leading digits of s, NaN (-1) when there are none
NaN == 0 - 1
parseInt(s) ==
  LET hits == {n \in 0..(MaxLists + 2) : s = ToString(n) \/ s = ToString(n) \o "x"}
  IN IF hits = {} THEN NaN ELSE CHOOSE n \in hits : TRUE

\* A text bound to a comparison with an INTEGER column: SQLite's column
\* affinity converts a well-formed integer text, and nothing else.
IntegerAffinity(s) ==
  LET hits == {n \in 0..(MaxLists + 2) : s = ToString(n)}
  IN IF hits = {} THEN NaN ELSE CHOOSE n \in hits : TRUE

\* ------------------------------------------------------------ the database
\* The D1 database as the handlers see it (schema.sql); an integer column
\* that is NULL holds 0, the row ids start at 1. A statement's result
\* carries what the handlers read from it: last_row_id (result.meta.last_row_id)
\* and rows_affected (result.meta.rows_affected), taken to be the number of
\* rows the statement changed.
DB == [users |-> users, lists |-> lists, listSeq |-> listSeq, reports |-> reports]

EmptyDB == [users |-> <<>>, lists |-> {}, listSeq |-> 0, reports |-> {}]

DocColumns == {"info_general", "configuracion", "niveles_desempeno",
               "criterios", "feedback", "resultados"}

UserIds(D) == 1..Len(D.users)
ListIds(D) == {l.id : l \in D.lists}

\* A lookup that compares the wrong column: no registered email is ever found
SelectUserByEmail_wrongColumn(D, email) ==
  LET hits == {i \in UserIds(D) : D.users[i].name = email}
  IN IF hits = {} THEN 0 ELSE CHOOSE i \in hits : \A j \in hits : i <= j

\* SELECT * FROM users WHERE email = ?  (.first(): the row's id, 0 for no row)
SelectUserByEmail(D, email) ==
  LET hits == {i \in UserIds(D) : D.users[i].email = email}
  IN IF hits = {} THEN 0 ELSE CHOOSE i \in hits : \A j \in hits : i <= j

\* A lookup that leaves the password out of the WHERE clause
SelectUserByEmailPassword_emailOnly(D, email, password) ==
  LET hits == {i \in UserIds(D) : D.users[i].email = email}
  IN IF hits = {} THEN 0 ELSE CHOOSE i \in hits : \A j \in hits : i <= j

\* SELECT * FROM users WHERE email = ? AND password = ?
SelectUserByEmailPassword(D, email, password) ==
  LET hits == {i \in UserIds(D) : D.users[i].email = email /\ D.users[i].password = password}
  IN IF hits = {} THEN 0 ELSE CHOOSE i \in hits : \A j \in hits : i <= j

\* SELECT * FROM users WHERE token = ?
SelectUserByToken(D, token) ==
  LET hits == {i \in UserIds(D) : D.users[i].token = token}
  IN IF hits = {} THEN 0 ELSE CHOOSE i \in hits : \A j \in hits : i <= j

\* The same INSERT into a table whose email column is not UNIQUE
InsertUser_emailNotUnique(D, name, email, university, password, token) ==
  IF \/ \E i \in UserIds(D) : D.users[i].token = token
     \/ UNDEF \in {name, email, university, password, token}
  THEN [ok |-> FALSE, db |-> D, last_row_id |-> 0]
  ELSE [ok |-> TRUE,
        db |-> [D EXCEPT !.users = Append(@, [id |-> Len(D.users) + 1, name |-> name,
                          email |-> email, university |-> university,
                          password |-> password, token |-> token])],
        last_row_id |-> Len(D.users) + 1]

\* INSERT INTO users (...): email and token are UNIQUE, id is AUTOINCREMENT
InsertUser(D, name, email, university, password, token) ==
  IF \/ \E i \in UserIds(D) : D.users[i].email = email \/ D.users[i].token = token
     \/ UNDEF \in {name, email, university, password, token}
  THEN [ok |-> FALSE, db |-> D, last_row_id |-> 0]
  ELSE [ok |-> TRUE,
        db |-> [D EXCEPT !.users = Append(@, [id |-> Len(D.users) + 1, name |-> name,
                          email |-> email, university |-> university,
                          password |-> password, token |-> token])],
        last_row_id |-> Len(D.users) + 1]

\* An update that matches no row: the stored token stays what it was
UpdateUserToken_noRow(D, token, id) == [ok |-> TRUE, db |-> D]

\* An update that keeps the stored token when that one was drawn later
UpdateUserToken_keepLater(D, token, id) ==
  IF \E k, m \in 0..(MaxUuids + 4) : k > m /\ D.users[id].token = randomUUID(k) /\ token = randomUUID(m)
  THEN [ok |-> TRUE, db |-> D]
  ELSE IF \E i \in UserIds(D) : i # id /\ D.users[i].token = token
  THEN [ok |-> FALSE, db |-> D]
  ELSE [ok |-> TRUE,
        db |-> [D EXCEPT !.users = [i \in UserIds(D) |->
                  IF i = id THEN [D.users[i] EXCEPT !.token = token] ELSE D.users[i]]]]

\* UPDATE users SET token = ? WHERE id = ?
UpdateUserToken(D, token, id) ==
  IF \E i \in UserIds(D) : i # id /\ D.users[i].token = token
  THEN [ok |-> FALSE, db |-> D]
  ELSE [ok |-> TRUE,
        db |-> [D EXCEPT !.users = [i \in UserIds(D) |->
                  IF i = id THEN [D.users[i] EXCEPT !.token = token] ELSE D.users[i]]]]

\* SELECT * FROM reports WHERE user_id = ?
SelectReportsByUser(D, userId) == {r \in D.reports : r.user_id = userId}

\* The same SELECT without "AND user_id = ?"
SelectReport_anyOwner(D, id, userId) == {r \in D.reports : r.id = id}

\* SELECT * FROM reports WHERE id = ? AND user_id = ?  (the set of rows: id is the key)
SelectReport(D, id, userId) == {r \in D.reports : r.id = id /\ r.user_id = userId}

\* INSERT OR REPLACE INTO reports (...): a row with the same id is replaced
InsertReport_orReplace(D, row) ==
  IF \/ row.user_id \notin UserIds(D)
     \/ row.list_id # 0 /\ row.list_id \notin ListIds(D)
     \/ \E c \in DocColumns \cup {"id"} : row[c] = UNDEF
  THEN [ok |-> FALSE, db |-> D]
  ELSE [ok |-> TRUE, db |-> [D EXCEPT !.reports = {r \in @ : r.id # row.id} \cup {row}]]

\* A statement whose bound values include undefined fails with D1_TYPE_ERROR.
\* INSERT INTO reports (...): id is the PRIMARY KEY, user_id and list_id are
\* FOREIGN KEYs (list_id may be NULL).
InsertReport(D, row) ==
  IF \/ \E r \in D.reports : r.id = row.id
     \/ row.user_id \notin UserIds(D)
     \/ row.list_id # 0 /\ row.list_id \notin ListIds(D)
     \/ \E c \in DocColumns \cup {"id"} : row[c] = UNDEF
  THEN [ok |-> FALSE, db |-> D]
  ELSE [ok |-> TRUE, db |-> [D EXCEPT !.reports = @ \cup {row}]]

\* The same UPDATE without "list_id = ?": the list association is kept
UpdateReportRow_keepList(D, docs, listId, id, userId) ==
  LET hit == SelectReport(D, id, userId)
  IN IF \E c \in DocColumns : docs[c] = UNDEF
     THEN [ok |-> FALSE, db |-> D, rows_affected |-> 0]
     ELSE [ok |-> TRUE,
           db |-> [D EXCEPT !.reports = {IF r \in hit
                     THEN [c \in DOMAIN r |-> IF c \in DocColumns THEN docs[c] ELSE r[c]]
                     ELSE r : r \in D.reports}],
           rows_affected |-> Cardinality(hit)]

\* UPDATE reports SET <six columns>, list_id = ? WHERE id = ? AND user_id = ?
UpdateReportRow(D, docs, listId, id, userId) ==
  LET hit == SelectReport(D, id, userId)
  IN IF \/ \E c \in DocColumns : docs[c] = UNDEF
        \/ hit # {} /\ listId # 0 /\ listId \notin ListIds(D)
     THEN [ok |-> FALSE, db |-> D, rows_affected |-> 0]
     ELSE [ok |-> TRUE,
           db |-> [D EXCEPT !.reports = {IF r \in hit
                     THEN [c \in DOMAIN r |-> IF c \in DocColumns THEN docs[c]
                                              ELSE IF c = "list_id" THEN listId ELSE r[c]]
                     ELSE r : r \in D.reports}],
           rows_affected |-> Cardinality(hit)]

\* The same DELETE without "AND user_id = ?"
DeleteReportRow_anyOwner(D, id, userId) ==
  LET hit == {r \in D.reports : r.id = id}
  IN [ok |-> TRUE, db |-> [D EXCEPT !.reports = @ \ hit], rows_affected |-> Cardinality(hit)]

\* DELETE FROM reports WHERE id = ? AND user_id = ?
DeleteReportRow(D, id, userId) ==
  LET hit == SelectReport(D, id, userId)
  IN [ok |-> TRUE, db |-> [D EXCEPT !.reports = @ \ hit], rows_affected |-> Cardinality(hit)]

\* SELECT * FROM lists WHERE user_id = ?
SelectListsByUser(D, userId) == {l \in D.lists : l.user_id = userId}

\* SELECT * FROM lists WHERE id = ?
SelectListById(D, id) == {l \in D.lists : l.id = id}

\* INSERT INTO lists (name, user_id): id is AUTOINCREMENT, never reused
InsertList(D, name, userId) ==
  IF name = UNDEF \/ userId \notin UserIds(D)
  THEN [ok |-> FALSE, db |-> D, last_row_id |-> 0]
  ELSE [ok |-> TRUE,
        db |-> [D EXCEPT !.lists = @ \cup {[id |-> D.listSeq + 1, name |-> name, user_id |-> userId]},
                         !.listSeq = @ + 1],
        last_row_id |-> D.listSeq + 1]

\* The same DELETE with reports.list_id declared ON DELETE CASCADE
DeleteListRow_cascade(D, id, userId) ==
  LET hit == {l \in D.lists : l.id = id /\ l.user_id = userId}
      gone == {l.id : l \in hit}
  IN [ok |-> TRUE,
      db |-> [D EXCEPT !.lists = @ \ hit,
                       !.reports = {r \in D.reports : r.list_id \notin gone}],
      rows_affected |-> Cardinality(hit)]

\* DELETE FROM lists WHERE id = ? AND user_id = ?; reports.list_id is
\* declared ON DELETE SET NULL
DeleteListRow(D, id, userId) ==
  LET hit == {l \in D.lists : l.id = id /\ l.user_id = userId}
      gone == {l.id : l \in hit}
  IN [ok |-> TRUE,
      db |-> [D EXCEPT !.lists = @ \ hit,
                       !.reports = {IF r.list_id \in gone THEN [r EXCEPT !.list_id = 0] ELSE r
                                    : r \in D.reports}],
      rows_affected |-> Cardinality(hit)]

\* ------------------------------------------------------------- responses
NoUser == [id |-> 0, name |-> "", email |-> "", university |-> ""]

\* The response of a request, with the handler that produced it (op), the
\* user id and the path identifier the handler was called with (uid, id).
\* jsonResponse's data is spread over user, token, retId, retListId, reports, lists.
Response(op, status, message) ==
  [op |-> op, status |-> status, message |-> message, uid |-> 0, id |-> "",
   user |-> NoUser, token |-> "", retId |-> "", retListId |-> 0,
   reports |-> {}, lists |-> {}]

jsonResponse(op, status) == Response(op, status, "")

errorResponse(op, message, status) == Response(op, status, message)

\* What a handler leaves behind: the database, the number of UUIDs drawn so
\* far and the response.
Out(D, n, resp) == [db |-> D, uuids |-> n, resp |-> resp]

Falsy(s) == s \in {UNDEF, SQLNULL, ""}

\* The row as the store returns it, password and token included
PublicUser_wholeRow(u) == u

\* { id: user.id, name: user.name, email: user.email, university: user.university }
PublicUser(u) == [id |-> u.id, name |-> u.name, email |-> u.email, university |-> u.university]

\* ------------------------------------------- handlers of functions/api/[[route]].js
\* (unnamed/part_001 repeats these handlers word for word)

\* A registration that takes over the row of a registered email
registerUser_takeOver(D, n, body) ==
  IF Falsy(body.name) \/ Falsy(body.email) \/ Falsy(body.university) \/ Falsy(body.password)
  THEN Out(D, n, errorResponse("registerUser", "Name, email, university, and password are required.", 400))
  ELSE LET token == randomUUID(n + 1)
           existingUser == SelectUserByEmail(D, body.email)
           result == InsertUser(D, body.name, body.email, body.university, body.password, token)
           user == [id |-> existingUser, name |-> body.name, email |-> body.email,
                    university |-> body.university]
       IN IF existingUser # 0
          THEN Out([D EXCEPT !.users[existingUser].token = token,
                             !.users[existingUser].password = body.password], n + 1,
                   [jsonResponse("registerUser", 201) EXCEPT !.user = user, !.token = token])
          ELSE IF ~result.ok
          THEN Out(D, n + 1, errorResponse("registerUser", "constraint failed", 500))
          ELSE Out(result.db, n + 1,
                   [jsonResponse("registerUser", 201) EXCEPT
                      !.user = [user EXCEPT !.id = result.last_row_id], !.token = token])

registerUser(D, n, body) ==
  IF Falsy(body.name) \/ Falsy(body.email) \/ Falsy(body.university) \/ Falsy(body.password)
  THEN Out(D, n, errorResponse("registerUser", "Name, email, university, and password are required.", 400))
  ELSE IF SelectUserByEmail(D, body.email) # 0
  THEN Out(D, n, errorResponse("registerUser", "Email already registered.", 409))
  ELSE LET token == randomUUID(n + 1)
           result == InsertUser(D, body.name, body.email, body.university, body.password, token)
       IN IF ~result.ok
          THEN Out(D, n + 1, errorResponse("registerUser", "constraint failed", 500))
          ELSE Out(result.db, n + 1,
                   [jsonResponse("registerUser", 201) EXCEPT
                      !.user = [id |-> result.last_row_id, name |-> body.name,
                                email |-> body.email, university |-> body.university],
                      !.token = token])

\* A login that answers with the stored token instead of issuing one
loginUser_storedToken(D, n, body) ==
  IF Falsy(body.email) \/ Falsy(body.password)
  THEN Out(D, n, errorResponse("loginUser", "Email and password are required.", 400))
  ELSE LET user == SelectUserByEmailPassword(D, body.email, body.password)
       IN IF user = 0
          THEN Out(D, n, errorResponse("loginUser", "Invalid email or password.", 401))
          ELSE Out(D, n, [jsonResponse("loginUser", 200) EXCEPT
                            !.user = PublicUser(D.users[user]), !.token = D.users[user].token])

loginUser(D, n, body) ==
  IF Falsy(body.email) \/ Falsy(body.password)
  THEN Out(D, n, errorResponse("loginUser", "Email and password are required.", 400))
  ELSE LET user == SelectUserByEmailPassword(D, body.email, body.password)
       IN IF user = 0
          THEN Out(D, n, errorResponse("loginUser", "Invalid email or password.", 401))
          ELSE LET token == randomUUID(n + 1)
                   result == UpdateUserToken(D, token, user)
               IN IF ~result.ok
                  THEN Out(D, n + 1, errorResponse("loginUser", "constraint failed", 500))
                  ELSE Out(result.db, n + 1,
                           [jsonResponse("loginUser", 200) EXCEPT
                              !.user = PublicUser(D.users[user]), !.token = token])

findUserByToken(D, token) ==
  LET user == SelectUserByToken(D, token)
  IN IF user = 0 THEN NoUser ELSE PublicUser(D.users[user])

\* the six members of a report and the column each is stored in
DocFields == {"infoGeneral", "configuracion", "nivelesDesempeno",
              "criterios", "feedback", "resultados"}

SequenceFields == {"nivelesDesempeno", "criterios"}

ColumnOf(f) ==
  CASE f = "infoGeneral" -> "info_general"
    [] f = "nivelesDesempeno" -> "niveles_desempeno"
    [] OTHER -> f

\* { ...r, infoGeneral: JSON.parse(r.info_general || '{}'), ... }: '{}' is the
\* default of the object members, '[]' the one of nivelesDesempeno and criterios
parsedReport(r) ==
  [f \in {"id", "user_id", "list_id"} \cup DocFields |->
     IF f \in DocFields
     THEN JSON_parse(StrOrElse(r[ColumnOf(f)], IF f \in SequenceFields THEN "[]" ELSE "{}"))
     ELSE r[f]]

Throws(parsed) == \E f \in DocFields : parsed[f] = SyntaxError

getReports(D, n, userId) ==
  LET results == SelectReportsByUser(D, userId)
      rs == {parsedReport(r) : r \in results}
  IN IF \E r \in rs : Throws(r)
     THEN Out(D, n, [errorResponse("getReports", "Unexpected token", 500) EXCEPT !.uid = userId])
     ELSE Out(D, n, [jsonResponse("getReports", 200) EXCEPT !.uid = userId, !.reports = rs])

getReport(D, n, userId, id) ==
  LET report == SelectReport(D, id, userId)
      rs == {parsedReport(r) : r \in report}
  IN IF report = {}
     THEN Out(D, n, [errorResponse("getReport", "Report not found", 404) EXCEPT !.uid = userId, !.id = id])
     ELSE IF \E r \in rs : Throws(r)
     THEN Out(D, n, [errorResponse("getReport", "Unexpected token", 500) EXCEPT !.uid = userId, !.id = id])
     ELSE Out(D, n, [jsonResponse("getReport", 200) EXCEPT !.uid = userId, !.id = id, !.reports = rs])

\* The six bound texts with '{}' as the default of every member
encodedDocs_objectDefault(body) ==
  [c \in DocColumns |->
     LET f == CHOOSE g \in DocFields : ColumnOf(g) = c
     IN JSON_stringify(OrElse(body[f], JObj(0)))]

\* The six texts without the defaults: JSON.stringify(infoGeneral), ...
encodedDocs_asSupplied(body) ==
  [c \in DocColumns |->
     LET f == CHOOSE g \in DocFields : ColumnOf(g) = c
     IN JSON_stringify(body[f])]

\* JSON.stringify(infoGeneral || {}), ... : the six bound texts
encodedDocs(body) ==
  [c \in DocColumns |->
     LET f == CHOOSE g \in DocFields : ColumnOf(g) = c
     IN JSON_stringify(OrElse(body[f], IF f \in SequenceFields THEN JArr(0) ELSE JObj(0)))]

ReportRow(id, userId, listId, docs) ==
  [id |-> id, user_id |-> userId, list_id |-> listId,
   info_general |-> docs.info_general, configuracion |-> docs.configuracion,
   niveles_desempeno |-> docs.niveles_desempeno, criterios |-> docs.criterios,
   feedback |-> docs.feedback, resultados |-> docs.resultados]

createReport(D, n, userId, body) ==
  LET drawn == IF Falsy(body.id) THEN n + 1 ELSE n
      id == StrOrElse(body.id, randomUUID(n + 1))
      result == InsertReport(D, ReportRow(id, userId, body.listaId, encodedDocs(body)))
  IN IF ~result.ok
     THEN Out(D, drawn, [errorResponse("createReport", "constraint failed", 500) EXCEPT !.uid = userId])
     ELSE Out(result.db, drawn,
              [jsonResponse("createReport", 201) EXCEPT !.uid = userId, !.retId = body.id])

updateReport(D, n, userId, id, body) ==
  LET result == UpdateReportRow(D, encodedDocs(body), body.listaId, id, userId)
  IN IF ~result.ok
     THEN Out(D, n, [errorResponse("updateReport", "constraint failed", 500) EXCEPT !.uid = userId, !.id = id])
     ELSE IF result.rows_affected = 0
     THEN Out(result.db, n, [errorResponse("updateReport", "Report not found or not authorized.", 404)
                               EXCEPT !.uid = userId, !.id = id])
     ELSE Out(result.db, n, [Response("updateReport", 200, "Report updated") EXCEPT !.uid = userId, !.id = id])

deleteReport(D, n, userId, id) ==
  LET result == DeleteReportRow(D, id, userId)
  IN IF result.rows_affected = 0
     THEN Out(result.db, n, [errorResponse("deleteReport", "Report not found or not authorized.", 404)
                               EXCEPT !.uid = userId, !.id = id])
     ELSE Out(result.db, n, [Response("deleteReport", 200, "Report deleted") EXCEPT !.uid = userId, !.id = id])

getLists(D, n, userId) ==
  Out(D, n, [jsonResponse("getLists", 200) EXCEPT !.uid = userId, !.lists = SelectListsByUser(D, userId)])

createList(D, n, userId, body) ==
  IF Falsy(body.name)
  THEN Out(D, n, [errorResponse("createList", "List name is required.", 400) EXCEPT !.uid = userId])
  ELSE LET result == InsertList(D, body.name, userId)
       IN IF ~result.ok
          THEN Out(D, n, [errorResponse("createList", "constraint failed", 500) EXCEPT !.uid = userId])
          ELSE Out(result.db, n, [jsonResponse("createList", 201) EXCEPT
                                    !.uid = userId, !.retListId = result.last_row_id])

\* SELECT * FROM reports WHERE user_id = ? AND json_extract(info_general, ...) = ? AND ...
\* (a comparison with NULL is never true)
SearchReportRows(D, userId, title, student) ==
  {r \in D.reports : /\ r.user_id = userId
                     /\ r.info_general # SQLNULL
                     /\ json_extract(r.info_general, "tituloEvaluacion") = title
                     /\ json_extract(r.info_general, "nombreEstudiante") = student
                     /\ title # SQLNULL /\ student # SQLNULL}

searchReports(D, n, userId, body) ==
  LET rs == {parsedReport(r) : r \in SearchReportRows(D, userId, body.title, body.student)}
  IN IF UNDEF \in {body.title, body.student}
     THEN Out(D, n, [errorResponse("searchReports", "D1_TYPE_ERROR", 500) EXCEPT !.uid = userId])
     ELSE IF \E r \in rs : Throws(r)
     THEN Out(D, n, [errorResponse("searchReports", "Unexpected token", 500) EXCEPT !.uid = userId])
     ELSE Out(D, n, [jsonResponse("searchReports", 200) EXCEPT !.uid = userId, !.reports = rs])

\* ------------------------------------------- the list handlers of unnamed/part_001

deleteList(D, n, userId, id) ==
  LET listIdNum == parseInt(id)
      userIdNum == userId
      existingList == SelectListById(D, listIdNum)
      result == DeleteListRow(D, listIdNum, userIdNum)
      at(r) == [r EXCEPT !.uid = userId, !.id = id]
  IN IF listIdNum = NaN
     THEN Out(D, n, at(errorResponse("deleteList", "Invalid ID format", 400)))
     ELSE IF existingList = {}
     THEN Out(D, n, at(errorResponse("deleteList", "List not found", 404)))
     ELSE IF \E l \in existingList : l.user_id # userIdNum
     THEN Out(D, n, at(errorResponse("deleteList", "Not authorized", 403)))
     ELSE IF result.rows_affected = 0
     THEN Out(result.db, n, at(errorResponse("deleteList", "Failed to delete list", 500)))
     ELSE Out(result.db, n, [at(Response("deleteList", 200, "List deleted successfully"))
                               EXCEPT !.retListId = listIdNum])

getList(D, n, userId, id) ==
  LET list == {l \in D.lists : l.id = parseInt(id) /\ l.user_id = userId}
  IN IF list = {}
     THEN Out(D, n, [errorResponse("getList", "List not found", 404) EXCEPT !.uid = userId, !.id = id])
     ELSE Out(D, n, [jsonResponse("getList", 200) EXCEPT !.uid = userId, !.id = id, !.lists = list])

\* UPDATE lists SET name = ? WHERE id = ? AND user_id = ?
UpdateListName(D, name, id, userId) ==
  LET hit == {l \in D.lists : l.id = id /\ l.user_id = userId}
  IN [db |-> [D EXCEPT !.lists = {IF l \in hit THEN [l EXCEPT !.name = name] ELSE l : l \in D.lists}],
      rows_affected |-> Cardinality(hit)]

updateList(D, n, userId, id, body) ==
  LET result == UpdateListName(D, body.name, parseInt(id), userId)
      at(r) == [r EXCEPT !.uid = userId, !.id = id]
  IN IF Falsy(body.name)
     THEN Out(D, n, at(errorResponse("updateList", "List name is required", 400)))
     ELSE IF result.rows_affected = 0
     THEN Out(result.db, n, at(errorResponse("updateList", "List not found or not authorized", 404)))
     ELSE Out(result.db, n, [at(Response("updateList", 200, "List updated"))
                               EXCEPT !.retListId = parseInt(id)])

\* ------------------------------------------- handlers of unnamed/part_000 (the Worker)
\* registerUser, loginUser, findUserByToken, deleteReport, getLists and
\* createList of the Worker make the same statements as the ones above;
\* the handlers below differ. An exception no handler catches leaves
\* handleRequest's promise rejected: the response is the runtime's error.
UNHANDLED == "<unhandled rejection>"

\* { ...r, infoGeneral: JSON.parse(r.info_general), ... }: no default
worker_parsedReport(r) ==
  [f \in {"id", "user_id", "list_id"} \cup DocFields |->
     IF f \in DocFields THEN JSON_parse(r[ColumnOf(f)]) ELSE r[f]]

worker_getReports(D, n, userId) ==
  LET rs == {worker_parsedReport(r) : r \in SelectReportsByUser(D, userId)}
  IN IF \E r \in rs : Throws(r)
     THEN Out(D, n, [errorResponse("getReports", UNHANDLED, 500) EXCEPT !.uid = userId])
     ELSE Out(D, n, [jsonResponse("getReports", 200) EXCEPT !.uid = userId, !.reports = rs])

worker_getReport(D, n, userId, id) ==
  LET report == SelectReport(D, id, userId)
      rs == {worker_parsedReport(r) : r \in report}
  IN IF report = {}
     THEN Out(D, n, [errorResponse("getReport", "Report not found", 404) EXCEPT !.uid = userId, !.id = id])
     ELSE IF \E r \in rs : Throws(r)
     THEN Out(D, n, [errorResponse("getReport", UNHANDLED, 500) EXCEPT !.uid = userId, !.id = id])
     ELSE Out(D, n, [jsonResponse("getReport", 200) EXCEPT !.uid = userId, !.id = id, !.reports = rs])

\* JSON.stringify(infoGeneral), ... : undefined for a member the body lacks
worker_encodedDocs(body) ==
  [c \in DocColumns |->
     LET f == CHOOSE g \in DocFields : ColumnOf(g) = c
     IN JSON_stringify(body[f])]

\* INSERT INTO reports (nine columns) VALUES (?, ?, ?, ?, ?, ?, ?, ?): eight
\* values for nine columns, the statement never compiles
worker_InsertReport(D, row) == [ok |-> FALSE, db |-> D]

worker_createReport(D, n, userId, body) ==
  LET result == worker_InsertReport(D, ReportRow(body.id, userId, body.listaId, worker_encodedDocs(body)))
  IN IF ~result.ok
     THEN Out(D, n, [errorResponse("createReport", "8 values for 9 columns", 500) EXCEPT !.uid = userId])
     ELSE Out(result.db, n, [jsonResponse("createReport", 201) EXCEPT !.uid = userId, !.retId = body.id])

worker_updateReport(D, n, userId, id, body) ==
  LET result == UpdateReportRow(D, worker_encodedDocs(body), body.listaId, id, userId)
  IN IF ~result.ok
     THEN Out(D, n, [errorResponse("updateReport", "constraint failed", 500) EXCEPT !.uid = userId, !.id = id])
     ELSE IF result.rows_affected = 0
     THEN Out(result.db, n, [errorResponse("updateReport", "Report not found or not authorized.", 404)
                               EXCEPT !.uid = userId, !.id = id])
     ELSE Out(result.db, n, [Response("updateReport", 200, "Report updated") EXCEPT !.uid = userId, !.id = id])

worker_searchReports(D, n, userId, body) ==
  LET rs == {worker_parsedReport(r) : r \in SearchReportRows(D, userId, body.title, body.student)}
  IN IF UNDEF \in {body.title, body.student}
     THEN Out(D, n, [errorResponse("searchReports", "D1_TYPE_ERROR", 500) EXCEPT !.uid = userId])
     ELSE IF \E r \in rs : Throws(r)
     THEN Out(D, n, [errorResponse("searchReports", "Unexpected token", 500) EXCEPT !.uid = userId])
     ELSE Out(D, n, [jsonResponse("searchReports", 200) EXCEPT !.uid = userId, !.reports = rs])

\* DELETE FROM lists WHERE id = ? AND user_id = ?, the id bound as the path's text
worker_deleteList(D, n, userId, id) ==
  LET result == DeleteListRow(D, IntegerAffinity(id), userId)
  IN IF result.rows_affected = 0
     THEN Out(result.db, n, [errorResponse("deleteList", "List not found or not authorized.", 404)
                               EXCEPT !.uid = userId, !.id = id])
     ELSE Out(result.db, n, [Response("deleteList", 200, "List deleted") EXCEPT !.uid = userId, !.id = id])

\* ------------------------------------------------------------- requests
\* A token taken from the header whatever its scheme
extractToken_anyScheme(request) ==
  IF request.auth.scheme = "none" THEN SQLNULL ELSE request.auth.cred

\* Authorization header: absent (scheme "none"), another scheme, or "Bearer <cred>"
extractToken(request) ==
  IF request.auth.scheme # "Bearer" THEN SQLNULL ELSE request.auth.cred

\* path.startsWith('/<seg>'), without the closing slash
StartsWith_noSlash(path, seg) == Len(path) >= 1 /\ path[1] = seg

\* path.startsWith('/<seg>/')
StartsWith(path, seg) == Len(path) >= 2 /\ path[1] = seg

\* path.split('/').filter(p => p)
NonEmptyParts(path) == SelectSeq(path, LAMBDA p : p # "")

\* the '/auth/me' case of handleAuth
me(D, n, request) ==
  LET token == extractToken(request)
      user == findUserByToken(D, token)
  IN IF Falsy(token)
     THEN Out(D, n, errorResponse("handleAuth", "Authentication required", 401))
     ELSE IF user = NoUser
     THEN Out(D, n, errorResponse("handleAuth", "Invalid token", 401))
     ELSE Out(D, n, [jsonResponse("me", 200) EXCEPT !.user = user, !.uid = user.id])

handleAuth(D, n, request) ==
  LET path == request.path
  IN IF path = <<"auth", "register">>
     THEN IF request.method # "POST"
          THEN Out(D, n, errorResponse("handleAuth", "Method Not Allowed", 405))
          ELSE registerUser(D, n, request.body)
     ELSE IF path = <<"auth", "login">>
     THEN IF request.method # "POST"
          THEN Out(D, n, errorResponse("handleAuth", "Method Not Allowed", 405))
          ELSE loginUser(D, n, request.body)
     ELSE IF path = <<"auth", "me">>
     THEN IF request.method # "GET"
          THEN Out(D, n, errorResponse("handleAuth", "Method Not Allowed", 405))
          ELSE me(D, n, request)
     ELSE Out(D, n, errorResponse("handleAuth", "Not Found", 404))

\* ------------------------------------------- onRequest of functions/api/[[route]].js
onRequest(D, n, request) ==
  LET path == request.path
      method == request.method
      body == request.body
      token == extractToken(request)
      user == findUserByToken(D, token)
      userId == user.id
      parts == NonEmptyParts(path)
      reportId == parts[2]
      reply(message, status) == Out(D, n, [errorResponse("onRequest", message, status) EXCEPT !.uid = userId])
  IN IF method = "OPTIONS" THEN Out(D, n, Response("onRequest", 200, ""))
     ELSE IF StartsWith(path, "auth") THEN handleAuth(D, n, request)
     ELSE IF Falsy(token) THEN Out(D, n, errorResponse("onRequest", "Authentication required", 401))
     ELSE IF user = NoUser THEN Out(D, n, errorResponse("onRequest", "Invalid token", 401))
     ELSE IF path = <<"reports">>
     THEN IF method = "GET" THEN getReports(D, n, userId)
          ELSE IF method = "POST" THEN createReport(D, n, userId, body)
          ELSE reply("Method Not Allowed", 405)
     ELSE IF StartsWith(path, "reports")
     THEN IF Len(parts) = 2 /\ method = "GET" THEN getReport(D, n, userId, reportId)
          ELSE IF Len(parts) = 2 /\ method = "PUT" THEN updateReport(D, n, userId, reportId, body)
          ELSE IF Len(parts) = 2 /\ method = "DELETE" THEN deleteReport(D, n, userId, reportId)
          ELSE IF Len(parts) = 3 /\ parts[3] = "search" /\ method = "POST"
          THEN searchReports(D, n, userId, body)
          ELSE reply("Not Found", 404)
     ELSE IF path = <<"reports", "search">>
     THEN IF method = "POST" THEN searchReports(D, n, userId, body)
          ELSE reply("Method Not Allowed", 405)
     ELSE IF path = <<"lists">>
     THEN IF method = "GET" THEN getLists(D, n, userId)
          ELSE IF method = "POST" THEN createList(D, n, userId, body)
          ELSE reply("Method Not Allowed", 405)
     ELSE reply("Not Found", 404)

\* ------------------------------------------- onRequest of unnamed/part_001
fixed_onRequest(D, n, request) ==
  LET path == request.path
      method == request.method
      body == request.body
      token == extractToken(request)
      user == findUserByToken(D, token)
      userId == user.id
      parts == NonEmptyParts(path)
      reply(message, status) == Out(D, n, [errorResponse("onRequest", message, status) EXCEPT !.uid = userId])
  IN IF method = "OPTIONS" THEN Out(D, n, Response("onRequest", 200, ""))
     ELSE IF StartsWith(path, "auth") THEN handleAuth(D, n, request)
     ELSE IF Falsy(token) THEN Out(D, n, errorResponse("onRequest", "Authentication required", 401))
     ELSE IF user = NoUser THEN Out(D, n, errorResponse("onRequest", "Invalid token", 401))
     ELSE IF path = <<"reports">>
     THEN IF method = "GET" THEN getReports(D, n, userId)
          ELSE IF method = "POST" THEN createReport(D, n, userId, body)
          ELSE reply("Method Not Allowed", 405)
     ELSE IF path = <<"reports", "search">>
     THEN IF method = "POST" THEN searchReports(D, n, userId, body)
          ELSE reply("Method Not Allowed", 405)
     ELSE IF StartsWith(path, "reports")
     THEN IF Len(parts) >= 2 /\ method = "GET" THEN getReport(D, n, userId, parts[2])
          ELSE IF Len(parts) >= 2 /\ method = "PUT" THEN updateReport(D, n, userId, parts[2], body)
          ELSE IF Len(parts) >= 2 /\ method = "DELETE" THEN deleteReport(D, n, userId, parts[2])
          ELSE reply("Not Found", 404)
     ELSE IF path = <<"lists">>
     THEN IF method = "GET" THEN getLists(D, n, userId)
          ELSE IF method = "POST" THEN createList(D, n, userId, body)
          ELSE reply("Method Not Allowed", 405)
     ELSE IF StartsWith(path, "lists")
     THEN IF Len(parts) >= 2
          THEN IF method = "DELETE" THEN deleteList(D, n, userId, parts[2])
               ELSE IF method = "GET" THEN getList(D, n, userId, parts[2])
               ELSE IF method = "PUT" THEN updateList(D, n, userId, parts[2], body)
               ELSE reply("Method Not Allowed", 405)
          ELSE reply("Invalid list path", 404)
     ELSE reply("Not Found", 404)

\* ------------------------------------------- handleRequest of unnamed/part_000
\* path.split('/') of "/reports/r1" is ['', 'reports', 'r1']: three parts are
\* two segments, and parts[2] is the second segment.
handleRequest(D, n, request) ==
  LET path == request.path
      method == request.method
      body == request.body
      token == extractToken(request)
      user == findUserByToken(D, token)
      userId == user.id
      reply(message, status) == Out(D, n, [errorResponse("handleRequest", message, status) EXCEPT !.uid = userId])
  IN IF method = "OPTIONS" THEN Out(D, n, Response("handleRequest", 200, ""))
     ELSE IF StartsWith(path, "auth") THEN handleAuth(D, n, request)
     ELSE IF Falsy(token) THEN Out(D, n, errorResponse("handleRequest", "Authentication required", 401))
     ELSE IF user = NoUser THEN Out(D, n, errorResponse("handleRequest", "Invalid token", 401))
     ELSE IF path = <<"reports">>
     THEN IF method = "GET" THEN worker_getReports(D, n, userId)
          ELSE IF method = "POST" THEN worker_createReport(D, n, userId, body)
          ELSE reply("Method Not Allowed", 405)
     ELSE IF StartsWith(path, "reports")
     THEN IF Len(path) = 2 /\ method = "GET" THEN worker_getReport(D, n, userId, path[2])
          ELSE IF Len(path) = 2 /\ method = "PUT" THEN worker_updateReport(D, n, userId, path[2], body)
          ELSE IF Len(path) = 2 /\ method = "DELETE" THEN deleteReport(D, n, userId, path[2])
          ELSE reply("Not Found", 404)
     ELSE IF path = <<"reports", "search">>
     THEN IF method = "POST" THEN worker_searchReports(D, n, userId, body)
          ELSE reply("Method Not Allowed", 405)
     ELSE IF StartsWith(path, "lists")
     THEN IF Len(path) = 2 /\ method = "DELETE" THEN worker_deleteList(D, n, userId, path[2])
          ELSE reply("Not Found", 404)
     ELSE IF path = <<"lists">>
     THEN IF method = "GET" THEN getLists(D, n, userId)
          ELSE IF method = "POST" THEN createList(D, n, userId, body)
          ELSE reply("Method Not Allowed", 405)
     ELSE reply("Not Found", 404)

\* The name of the variant's router
RouterOf(v) == IF v = "worker" THEN "handleRequest" ELSE "onRequest"

\* The entry point of the deployed variant
Serve(v, D, n, request) ==
  CASE v = "pages" -> onRequest(D, n, request)
    [] v = "pagesFixed" -> fixed_onRequest(D, n, request)
    [] v = "worker" -> handleRequest(D, n, request)

\* ------------------------------------------- one request, statement by statement
\* Every await of a store statement is a point where the other requests in
\* flight run: a call is a request with the place it has reached (state), the
\* handler it was dispatched to (op), the user the session lookup returned
\* (userId), the path identifier (id), the UUID it drew (local), what it has
\* done so far (trace) and its response. The trace lists "handleAuth",
\* "findUserByToken" (the session lookup, a store statement), "dispatch" (the
\* chain of path tests after the lookup), the handler entered and "statement"
\* for each store statement of the handler. target is history: when the
\* request was sent, its path named a report or a list of the user its token
\* resolved to ("own"), of somebody else ("other"), or no stored row ("none").
Idle ==
  [state |-> "idle", request |-> [method |-> "", path |-> <<>>, auth |-> [scheme |-> "none", cred |-> ""]],
   op |-> "", userId |-> 0, id |-> "", local |-> 0, trace |-> <<>>, faulted |-> FALSE,
   target |-> "none", resp |-> Response("", 0, "")]

Sees(call, event) == [call EXCEPT !.trace = Append(@, event)]

Respond(call, resp) == [call EXCEPT !.state = "done", !.resp = resp]

\* where a call stands after a step: the database, the UUIDs drawn, the call
At(D, n, call) == [db |-> D, uuids |-> n, call |-> call]

\* The handlers whose store statements are inside a try/catch: all of them in
\* the Pages functions, six in the Worker
Catches(v, op) ==
  \/ v # "worker"
  \/ op \in {"registerUser", "loginUser", "createReport", "updateReport", "searchReports", "createList"}

\* A store statement of handler op throws: the handler's catch answers 500
\* with the error's message; with no catch the promise handleRequest returned
\* is rejected, and fetch, which returned it without await, does not catch it
Thrown(v, call) ==
  Respond([Sees(call, "statement") EXCEPT !.faulted = TRUE],
          IF Catches(v, call.op)
          THEN [errorResponse(call.op, "D1_ERROR", 500) EXCEPT !.uid = call.userId, !.id = call.id]
          ELSE [errorResponse(call.op, UNHANDLED, 500) EXCEPT !.uid = call.userId, !.id = call.id])

\* return getReports(request, env, userId), ... : the handler the router names
Handle(v, op, D, n, userId, id, body) ==
  CASE op = "getReports" -> IF v = "worker" THEN worker_getReports(D, n, userId) ELSE getReports(D, n, userId)
    [] op = "getReport" -> IF v = "worker" THEN worker_getReport(D, n, userId, id) ELSE getReport(D, n, userId, id)
    [] op = "createReport" -> IF v = "worker" THEN worker_createReport(D, n, userId, body)
                              ELSE createReport(D, n, userId, body)
    [] op = "updateReport" -> IF v = "worker" THEN worker_updateReport(D, n, userId, id, body)
                              ELSE updateReport(D, n, userId, id, body)
    [] op = "deleteReport" -> deleteReport(D, n, userId, id)
    [] op = "searchReports" -> IF v = "worker" THEN worker_searchReports(D, n, userId, body)
                               ELSE searchReports(D, n, userId, body)
    [] op = "getLists" -> getLists(D, n, userId)
    [] op = "createList" -> createList(D, n, userId, body)
    [] op = "deleteList" -> IF v = "worker" THEN worker_deleteList(D, n, userId, id) ELSE deleteList(D, n, userId, id)
    [] op = "getList" -> getList(D, n, userId, id)
    [] op = "updateList" -> updateList(D, n, userId, id, body)

\* The handler answers before its first store statement
NoStatement(v, op, id, body) ==
  \/ op \in {"createList", "updateList"} /\ Falsy(body.name)
  \/ op = "deleteList" /\ v = "pagesFixed" /\ parseInt(id) = NaN

\* A router that has no preflight branch
IsPreflight_never(request) == FALSE

\* if (request.method === 'OPTIONS')
IsPreflight(request) == request.method = "OPTIONS"

\* From the entry point to the first await of a store statement
StartCall(v, D, n, request) ==
  LET call == [Idle EXCEPT !.request = request]
      inAuth == Sees(call, "handleAuth")
      body == request.body
  IN IF IsPreflight(request) THEN Respond(call, Serve(v, D, n, request).resp)
     ELSE IF StartsWith(request.path, "auth")
     THEN IF request.path = <<"auth", "register">> /\ request.method = "POST"
          THEN IF Falsy(body.name) \/ Falsy(body.email) \/ Falsy(body.university) \/ Falsy(body.password)
               THEN Respond(Sees(inAuth, "registerUser"), registerUser(D, n, body).resp)
               ELSE [Sees(inAuth, "registerUser") EXCEPT !.state = "first", !.op = "registerUser"]
          ELSE IF request.path = <<"auth", "login">> /\ request.method = "POST"
          THEN IF Falsy(body.email) \/ Falsy(body.password)
               THEN Respond(Sees(inAuth, "loginUser"), loginUser(D, n, body).resp)
               ELSE [Sees(inAuth, "loginUser") EXCEPT !.state = "first", !.op = "loginUser"]
          ELSE IF request.path = <<"auth", "me">> /\ request.method = "GET" /\ ~Falsy(extractToken(request))
          THEN [inAuth EXCEPT !.state = "lookup", !.op = "me"]
          ELSE Respond(inAuth, handleAuth(D, n, request).resp)
     ELSE IF Falsy(extractToken(request)) THEN Respond(call, Serve(v, D, n, request).resp)
     ELSE [call EXCEPT !.state = "lookup", !.op = RouterOf(v)]

\* await findUserByToken(token, env.DB), and what follows it up to the next
\* store statement. findUserByToken of the Pages functions catches the store's
\* failure and returns null; the Worker's has no catch.
\* A router that dispatches without the test "if (!user)"
AfterLookup_unchecked(v, seen, user, whoami, routed) ==
  LET entered == [Sees(Sees(seen, "dispatch"), routed.op) EXCEPT
                    !.op = routed.op, !.userId = user.id, !.id = routed.id]
  IN IF seen.op = "me" THEN Respond(seen, whoami)
     ELSE IF routed.op = RouterOf(v) /\ user # NoUser THEN Respond(Sees(seen, "dispatch"), routed)
     ELSE IF user # NoUser /\ NoStatement(v, routed.op, routed.id, seen.request.body) THEN Respond(entered, routed)
     ELSE [entered EXCEPT !.state = "first", !.op = IF user = NoUser THEN "getLists" ELSE routed.op]

\* (seen: the call after the lookup; user: the row found; whoami, routed: what
\* handleAuth and the router answer with that user)
AfterLookup(v, seen, user, whoami, routed) ==
  LET entered == [Sees(Sees(seen, "dispatch"), routed.op) EXCEPT
                    !.op = routed.op, !.userId = user.id, !.id = routed.id]
  IN IF user = NoUser
     THEN Respond(seen, errorResponse(IF seen.op = "me" THEN "handleAuth" ELSE RouterOf(v), "Invalid token", 401))
     ELSE IF seen.op = "me" THEN Respond(seen, whoami)
     ELSE IF routed.op = RouterOf(v) THEN Respond(Sees(seen, "dispatch"), routed)
     ELSE IF NoStatement(v, routed.op, routed.id, seen.request.body) THEN Respond(entered, routed)
     ELSE [entered EXCEPT !.state = "first"]

\* A lookup without its catch: the failure reaches the caller in every variant
LookupStep_noCatch(v, D, n, call, fault) ==
  IF fault
  THEN Respond([Sees(call, "findUserByToken") EXCEPT !.faulted = TRUE],
               errorResponse(call.op, IF v = "worker" THEN UNHANDLED ELSE "D1_ERROR", 500))
  ELSE AfterLookup(v, Sees(call, "findUserByToken"),
                   findUserByToken(D, extractToken(call.request)),
                   me(D, n, call.request).resp,
                   Serve(v, D, n, call.request).resp)

LookupStep(v, D, n, call, fault) ==
  IF fault /\ v = "worker"
  THEN Respond([Sees(call, "findUserByToken") EXCEPT !.faulted = TRUE], errorResponse(call.op, UNHANDLED, 500))
  ELSE AfterLookup(v, [Sees(call, "findUserByToken") EXCEPT !.faulted = fault],
                   IF fault THEN NoUser ELSE findUserByToken(D, extractToken(call.request)),
                   me(D, n, call.request).resp,
                   Serve(v, D, n, call.request).resp)

\* The first store statement of the handler the call was dispatched to.
\* registerUser, loginUser and the deleteList of unnamed/part_001 make a
\* second one; every other handler answers after its only statement.
Answered(did, out) == At(out.db, out.uuids, Respond(did, out.resp))

FirstStep(v, D, n, call, fault) ==
  LET body == call.request.body
      did == Sees(call, "statement")
  IN IF fault THEN At(D, n, Thrown(v, call))
     ELSE IF call.op = "registerUser"
     THEN IF SelectUserByEmail(D, body.email) # 0
          THEN At(D, n, Respond(did, registerUser(D, n, body).resp))
          ELSE At(D, n + 1, [did EXCEPT !.state = "second", !.local = n + 1])
     ELSE IF call.op = "loginUser"
     THEN IF SelectUserByEmailPassword(D, body.email, body.password) = 0
          THEN At(D, n, Respond(did, loginUser(D, n, body).resp))
          ELSE At(D, n + 1, [did EXCEPT !.state = "second", !.local = n + 1,
                                        !.userId = SelectUserByEmailPassword(D, body.email, body.password)])
     ELSE IF call.op = "deleteList" /\ v = "pagesFixed"
     THEN IF \A l \in SelectListById(D, parseInt(call.id)) : l.user_id # call.userId
          THEN At(D, n, Respond(did, deleteList(D, n, call.userId, call.id).resp))
          ELSE At(D, n, [did EXCEPT !.state = "second"])
     ELSE Answered(did, Handle(v, call.op, D, n, call.userId, call.id, body))

\* The second store statement: the INSERT of registerUser, the UPDATE of
\* loginUser, the DELETE of deleteList
SecondStep(v, D, n, call, fault) ==
  LET body == call.request.body
      did == Sees(call, "statement")
      token == randomUUID(call.local)
      inserted == InsertUser(D, body.name, body.email, body.university, body.password, token)
      updated == UpdateUserToken(D, token, call.userId)
      deleted == DeleteListRow(D, parseInt(call.id), call.userId)
      at(r) == [r EXCEPT !.uid = call.userId, !.id = call.id]
  IN IF fault THEN At(D, n, Thrown(v, call))
     ELSE IF call.op = "registerUser"
     THEN IF ~inserted.ok
          THEN At(D, n, Respond(did, errorResponse("registerUser", "constraint failed", 500)))
          ELSE At(inserted.db, n,
                  Respond(did, [jsonResponse("registerUser", 201) EXCEPT
                                  !.user = [id |-> inserted.last_row_id, name |-> body.name,
                                            email |-> body.email, university |-> body.university],
                                  !.token = token]))
     ELSE IF call.op = "loginUser"
     THEN IF ~updated.ok
          THEN At(D, n, Respond(did, errorResponse("loginUser", "constraint failed", 500)))
          ELSE At(updated.db, n,
                  Respond(did, [jsonResponse("loginUser", 200) EXCEPT
                                  !.user = PublicUser(D.users[call.userId]), !.token = token]))
     ELSE IF deleted.rows_affected = 0
     THEN At(deleted.db, n, Respond(did, at(errorResponse("deleteList", "Failed to delete list", 500))))
     ELSE At(deleted.db, n, Respond(did, [at(Response("deleteList", 200, "List deleted successfully"))
                                            EXCEPT !.retListId = parseInt(call.id)]))

\* The next step of a call that is not done
StepCall(v, D, n, call, fault) ==
  CASE call.state = "lookup" -> At(D, n, LookupStep(v, D, n, call, fault))
    [] call.state = "first" -> FirstStep(v, D, n, call, fault)
    [] call.state = "second" -> SecondStep(v, D, n, call, fault)
    [] OTHER -> At(D, n, call)

\* A request served with no other request in flight and no failure of the store
RunAlone(v, D, n, request) ==
  LET s0 == At(D, n, StartCall(v, D, n, request))
      s1 == StepCall(v, s0.db, s0.uuids, s0.call, FALSE)
      s2 == StepCall(v, s1.db, s1.uuids, s1.call, FALSE)
  IN StepCall(v, s2.db, s2.uuids, s2.call, FALSE)

\* ------------------------------------------------------------- inputs
Methods == {"GET", "POST", "PUT", "DELETE", "OPTIONS"}

\* the emails, in the order in which they are first registered (the users are
\* interchangeable)
EmailOrder == <<"a@x.com", "b@x.com">>
Emails == {EmailOrder[k] : k \in 1..Len(EmailOrder)}
Passwords == {"pw1", "pw2"}

\* A JSON body: a member the body lacks is UNDEF (strings), 0 (listaId) or
\* Undefined (structured members).
EmptyBody ==
  [name |-> UNDEF, email |-> UNDEF, university |-> UNDEF, password |-> UNDEF,
   id |-> UNDEF, listaId |-> 0, title |-> UNDEF, student |-> UNDEF,
   infoGeneral |-> Undefined, configuracion |-> Undefined, nivelesDesempeno |-> Undefined,
   criterios |-> Undefined, feedback |-> Undefined, resultados |-> Undefined]

\* registrations with the four members, and with one of them missing
FullRegisterBodies ==
  {[EmptyBody EXCEPT !.name = "Ana", !.email = e, !.university = "UdeC", !.password = "pw1"] :
     e \in Emails}

RegisterBodies ==
  FullRegisterBodies
  \cup {[b EXCEPT ![f] = UNDEF] : b \in {c \in FullRegisterBodies : c.email = EmailOrder[1]},
                                   f \in {"name", "email", "university", "password"}}

\* the registrations that are served: of a registered email, or of the first
\* email that is not registered
ServedRegisterBodies ==
  {b \in RegisterBodies :
     b.email = UNDEF \/ \E k \in 1..Len(EmailOrder) : k <= Len(users) + 1 /\ b.email = EmailOrder[k]}

LoginBodies ==
  {[EmptyBody EXCEPT !.email = e, !.password = pw] : e \in Emails, pw \in Passwords}
  \cup {[EmptyBody EXCEPT !.email = EmailOrder[1]], [EmptyBody EXCEPT !.password = "pw1"]}

\* the six sub-documents: all supplied, none supplied, falsy or empty ones supplied
SuppliedDocs ==
  [EmptyBody EXCEPT !.infoGeneral = JObj(2), !.configuracion = JObj(1),
                    !.nivelesDesempeno = JArr(1), !.criterios = JArr(2),
                    !.feedback = JObj(1), !.resultados = JObj(1)]

EdgeDocs ==
  [EmptyBody EXCEPT !.infoGeneral = JObj(0), !.configuracion = JNull,
                    !.nivelesDesempeno = JArr(0), !.criterios = JNum(0),
                    !.feedback = JNum(1), !.resultados = JArr(1)]

DocBodies == {EmptyBody, SuppliedDocs, EdgeDocs}

ReportIdsIn == {"r1", "search"}

ReportBodies ==
  {[b EXCEPT !.id = id, !.listaId = l] :
     b \in DocBodies, id \in {UNDEF} \cup ReportIdsIn, l \in 0..(MaxLists + 1)}

UpdateBodies == {[b EXCEPT !.listaId = l] : b \in DocBodies, l \in 0..(MaxLists + 1)}

\* the report bodies of the requests that are served: the id chosen by the
\* client, the six sub-documents all supplied or all omitted
ServedReportBodies ==
  {b \in ReportBodies : b.id # UNDEF /\ \E d \in {EmptyBody, SuppliedDocs} : \A f \in DocFields : b[f] = d[f]}

ServedUpdateBodies == {b \in UpdateBodies : \E d \in {EmptyBody, SuppliedDocs} : \A f \in DocFields : b[f] = d[f]}

SearchBodies ==
  {[EmptyBody EXCEPT !.title = t, !.student = st] : t \in {UNDEF, "T2"}, st \in {UNDEF, "E2"}}

ServedSearchBodies == {b \in SearchBodies : b.title = UNDEF <=> b.student = UNDEF}

ListBodies == {[EmptyBody EXCEPT !.name = nm] : nm \in {UNDEF, "Seccion 1"}}

\* Authorization headers: none, another scheme, Bearer with an empty
\* credential, with a UUID drawn so far, with a UUID never drawn
Auths ==
  {[scheme |-> "none", cred |-> ""], [scheme |-> "Basic", cred |-> "x"]}
  \cup {[scheme |-> "Bearer", cred |-> c] : c \in {""} \cup {randomUUID(k) : k \in 0..uuids}}

NoAuth == [scheme |-> "none", cred |-> ""]

NoTokenAuths == {a \in Auths : a.scheme # "Bearer" \/ a.cred = ""}

\* the headers that carry a UUID that is no stored user's token
StaleAuths == {a \in Auths : a.scheme = "Bearer" /\ a.cred # "" /\ \A i \in 1..Len(users) : users[i].token # a.cred}

\* the headers that carry a token of a stored user
BearerAuths == {[scheme |-> "Bearer", cred |-> users[i].token] : i \in 1..Len(users)}

\* the ids a path may name: those a caller chooses and those of the stored rows
ReportPathIds == ReportIdsIn \cup {r.id : r \in reports}
ListPathIds == {ToString(k) : k \in 1..(MaxLists + 1)} \cup {"1x", "abc"}

ReportPaths ==
  {<<"reports", id>> : id \in ReportPathIds}
  \cup {<<"reports", id, "search">> : id \in {"r1"}}
  \cup {<<"reports", id, "extra">> : id \in {"r1"}}

ListPaths ==
  {<<"lists", id>> : id \in ListPathIds} \cup {<<"lists", "1", "extra">>}

AuthPaths == {<<"auth", "register">>, <<"auth", "login">>, <<"auth", "me">>, <<"auth", "other">>}

Paths == {<<"reports">>, <<"lists">>, <<"other">>, <<"auth">>} \cup ReportPaths \cup ListPaths \cup AuthPaths

Request(method, path, auth, body) ==
  [method |-> method, path |-> path, auth |-> auth, body |-> body]

\* ------------------------------------------------------------- the system
\* the requests in flight in StepSpec: two callers, one request each
Callers == {1, 2}

Init ==
  /\ variant \in Variants
  /\ users = <<>>
  /\ lists = {}
  /\ listSeq = 0
  /\ reports = {}
  /\ uuids = 0
  /\ issued = {}
  /\ calls = [c \in Callers |-> Idle]

\* History: the tokens handed out so far, each with the user it was issued to,
\* the handler that issued it, the credentials of the request and the number
\* of UUIDs drawn when it was issued (later tokens have larger numbers)
Issued(request, out) ==
  IF out.resp.op \in {"registerUser", "loginUser"} /\ out.resp.status \in {200, 201}
  THEN {[uid |-> out.resp.user.id, token |-> out.resp.token, by |-> out.resp.op,
         email |-> request.body.email, password |-> request.body.password,
         seq |-> out.uuids]}
  ELSE {}

\* The requests tried for each handler: the methods, paths, headers and
\* bodies among which the router picks the ones that reach it
Requests(methods, paths, auths, bodies) ==
  {Request(m, p, a, b) : m \in methods, p \in paths, a \in auths, b \in bodies}

RequestsFor(op) ==
  CASE op = "registerUser" -> Requests({"POST"}, {<<"auth", "register">>}, Auths \cap {NoAuth}, ServedRegisterBodies)
    [] op = "loginUser" -> Requests({"POST"}, {<<"auth", "login">>}, Auths \cap {NoAuth}, LoginBodies)
    [] op = "me" -> Requests({"GET"}, {<<"auth", "me">>}, BearerAuths, {EmptyBody})
    [] op = "getReports" -> Requests({"GET"}, {<<"reports">>}, BearerAuths, {EmptyBody})
    [] op = "createReport" -> Requests({"POST"}, {<<"reports">>}, BearerAuths, ServedReportBodies)
    [] op = "getReport" -> Requests({"GET"}, ReportPaths, BearerAuths, {EmptyBody})
    [] op = "updateReport" -> Requests({"PUT"}, ReportPaths, BearerAuths, ServedUpdateBodies)
    [] op = "deleteReport" -> Requests({"DELETE"}, ReportPaths, BearerAuths, {EmptyBody})
    [] op = "searchReports" -> Requests({"POST"}, ReportPaths, BearerAuths, ServedSearchBodies)
    [] op = "getLists" -> Requests({"GET"}, {<<"lists">>}, BearerAuths, {EmptyBody})
    [] op = "createList" -> Requests({"POST"}, {<<"lists">>}, BearerAuths, ListBodies)
    [] op = "deleteList" -> Requests({"DELETE"}, ListPaths, BearerAuths, {EmptyBody})
    [] op = "getList" -> Requests({"GET"}, ListPaths, BearerAuths, {EmptyBody})
    [] op = "updateList" -> Requests({"PUT"}, ListPaths, BearerAuths, ListBodies)
    [] op = "handleAuth" ->
         Requests({"GET"}, AuthPaths, {NoAuth} \cup StaleAuths, {EmptyBody})
         \cup Requests({"POST"}, {<<"auth", "me">>}, BearerAuths, {EmptyBody})
    [] op = "router" ->
         Requests({"OPTIONS"}, {<<"reports">>, <<"auth", "login">>}, Auths \cap {NoAuth}, {EmptyBody})
         \cup Requests({"GET"}, {<<"reports">>, <<"lists", "1">>}, Auths \ BearerAuths, {EmptyBody})
         \cup Requests({"PUT"}, {<<"reports">>, <<"lists">>, <<"other">>, <<"auth">>,
                                 <<"reports", "r1", "extra">>, <<"reports", "search">>},
                        BearerAuths, {EmptyBody})
         \cup Requests({"POST"}, {<<"other">>, <<"lists", "1">>, <<"reports", "r1">>}, BearerAuths, {EmptyBody})

\* One request served from its first statement to its response: out is what
\* the entry point left behind
Served(request, out) ==
  /\ out.uuids <= MaxUuids
  /\ out.db.listSeq <= MaxLists
  /\ Cardinality(out.db.reports) <= MaxReports
  /\ users' = out.db.users
  /\ lists' = out.db.lists
  /\ listSeq' = out.db.listSeq
  /\ reports' = out.db.reports
  /\ uuids' = out.uuids
  /\ issued' = issued \cup Issued(request, out)
  /\ UNCHANGED <<variant, calls>>

\* The router dispatches the request to the handler op and the request is served
Reached(op, request) ==
  LET out == Serve(variant, DB, uuids, request)
  IN /\ out.resp.op = IF op = "router" THEN RouterOf(variant) ELSE op
     /\ Served(request, out)

Register == \E request \in RequestsFor("registerUser") : Reached("registerUser", request)

Login == \E request \in RequestsFor("loginUser") : Reached("loginUser", request)

Me == \E request \in RequestsFor("me") : Reached("me", request)

GetReports == \E request \in RequestsFor("getReports") : Reached("getReports", request)

CreateReport == \E request \in RequestsFor("createReport") : Reached("createReport", request)

GetReport == \E request \in RequestsFor("getReport") : Reached("getReport", request)

UpdateReport == \E request \in RequestsFor("updateReport") : Reached("updateReport", request)

DeleteReport == \E request \in RequestsFor("deleteReport") : Reached("deleteReport", request)

SearchReports == \E request \in RequestsFor("searchReports") : Reached("searchReports", request)

GetLists == \E request \in RequestsFor("getLists") : Reached("getLists", request)

CreateList == \E request \in RequestsFor("createList") : Reached("createList", request)

DeleteList == \E request \in RequestsFor("deleteList") : Reached("deleteList", request)

GetList == \E request \in RequestsFor("getList") : Reached("getList", request)

UpdateList == \E request \in RequestsFor("updateList") : Reached("updateList", request)

\* answered by handleAuth itself: 401, 404, 405
AuthRejected == \E request \in RequestsFor("handleAuth") : Reached("handleAuth", request)

\* answered by the router itself: the preflight, 401, 404, 405
RouterAnswered == \E request \in RequestsFor("router") : Reached("router", request)

Next ==
  \/ Register \/ Login \/ Me
  \/ GetReports \/ CreateReport \/ GetReport \/ UpdateReport \/ DeleteReport \/ SearchReports
  \/ GetLists \/ CreateList \/ DeleteList \/ GetList \/ UpdateList
  \/ AuthRejected \/ RouterAnswered

Spec == Init /\ [][Next]_vars

\* ------------------------------------------------- requests in flight
\* The requests that fill the store before the two callers send theirs:
\* registrations, and the first user's list and report
SetupRequests ==
  Requests({"POST"}, {<<"auth", "register">>}, {NoAuth}, ServedRegisterBodies \cap FullRegisterBodies)
  \cup Requests({"POST"}, {<<"lists">>}, BearerAuths \cap {[scheme |-> "Bearer", cred |-> randomUUID(1)]},
                {b \in ListBodies : b.name # UNDEF})
  \cup Requests({"POST"}, {<<"reports">>}, BearerAuths \cap {[scheme |-> "Bearer", cred |-> randomUUID(1)]},
                {[SuppliedDocs EXCEPT !.id = "r1", !.listaId = l] : l \in {0} \cup ListIds(DB)})

\* The requests of the first caller: every route, with and without a token
\* that resolves
CallRequests ==
  Requests({"OPTIONS"}, {<<"reports">>, <<"auth", "login">>, <<"lists", "1">>}, {NoAuth} \cup BearerAuths, {EmptyBody})
  \cup Requests({"GET"}, {<<"reports">>, <<"lists">>, <<"reports", "r1">>, <<"lists", "1">>,
                          <<"auth", "me">>, <<"auth", "login">>, <<"other">>},
                {NoAuth} \cup StaleAuths \cup BearerAuths, {EmptyBody})
  \cup Requests({"PUT", "DELETE"}, {<<"reports">>, <<"reports", "r1">>, <<"lists", "1">>, <<"lists", "abc">>},
                BearerAuths, {SuppliedDocs, [EmptyBody EXCEPT !.name = "Seccion 2"]})
  \cup Requests({"POST"}, {<<"reports">>}, BearerAuths, {[SuppliedDocs EXCEPT !.id = "r1"]})
  \cup Requests({"POST"}, {<<"reports", "search">>}, BearerAuths, {[EmptyBody EXCEPT !.title = "T2", !.student = "E2"]})
  \cup Requests({"POST"}, {<<"lists">>}, BearerAuths, ListBodies)
  \cup Requests({"POST"}, {<<"auth", "register">>}, {NoAuth},
                {b \in RegisterBodies : b.email \in {UNDEF, EmailOrder[1]}})
  \cup Requests({"POST"}, {<<"auth", "login">>}, {NoAuth},
                {b \in LoginBodies : b.email \in {UNDEF, EmailOrder[1]}})

\* The requests of the second caller, which races the first one's: the
\* deletion of the first user's rows, the registration and the login of the
\* first email
RaceRequests ==
  Requests({"DELETE"}, {<<"reports", "r1">>, <<"lists", "1">>}, BearerAuths, {EmptyBody})
  \cup Requests({"POST"}, {<<"auth", "register">>}, {NoAuth},
                 {b \in FullRegisterBodies : b.email = EmailOrder[1]})
  \cup Requests({"POST"}, {<<"auth", "login">>}, {NoAuth},
                 {[EmptyBody EXCEPT !.email = EmailOrder[1], !.password = "pw1"]})

RequestsOf(c) == IF c = 1 THEN CallRequests ELSE RaceRequests

\* A request served whole while no caller's request is in flight
Setup ==
  /\ \A c \in Callers : calls[c].state = "idle"
  /\ \E request \in SetupRequests : Served(request, Serve(variant, DB, uuids, request))

\* Whose stored report or list the path names, seen from the token's user
Target(D, request) ==
  LET user == SelectUserByToken(D, extractToken(request))
      path == request.path
      owners == IF Len(path) # 2 THEN {}
                ELSE {r.user_id : r \in {x \in D.reports : path[1] = "reports" /\ x.id = path[2]}}
                     \cup {l.user_id : l \in {x \in D.lists : path[1] = "lists" /\ ToString(x.id) = path[2]}}
  IN IF owners = {} THEN "none"
     ELSE IF user # 0 /\ user \in owners THEN "own" ELSE "other"

\* Caller c sends a request: the entry point runs up to its first store statement
Begin(c) ==
  /\ calls[c].state = "idle"
  /\ \E request \in RequestsOf(c) :
       calls' = [calls EXCEPT ![c] = [StartCall(variant, DB, uuids, request) EXCEPT
                                       !.target = Target(DB, request)]]
  /\ UNCHANGED <<variant, users, lists, listSeq, reports, uuids, issued>>

\* The store statement caller c's request awaits is executed (or fails), and
\* the request runs up to its next store statement or to its response
Stepped(c, fault) ==
  \E s \in {StepCall(variant, DB, uuids, calls[c], fault)} :
     /\ users' = s.db.users
     /\ lists' = s.db.lists
     /\ listSeq' = s.db.listSeq
     /\ reports' = s.db.reports
     /\ uuids' = s.uuids
     /\ calls' = [calls EXCEPT ![c] = s.call]
     /\ issued' = issued \cup Issued(calls[c].request, [resp |-> s.call.resp, uuids |-> s.uuids])
     /\ UNCHANGED variant

Lookup(c) == calls[c].state = "lookup" /\ Stepped(c, FALSE)

First(c) == calls[c].state = "first" /\ Stepped(c, FALSE)

Second(c) == calls[c].state = "second" /\ Stepped(c, FALSE)

StoreFails(c) == calls[c].state \in {"lookup", "first", "second"} /\ Stepped(c, TRUE)

StepNext ==
  \/ Setup
  \/ \E c \in Callers : Begin(c)
  \/ \E c \in Callers : Lookup(c)
  \/ \E c \in Callers : First(c)
  \/ \E c \in Callers : Second(c)
  \/ \E c \in Callers : StoreFails(c)

StepSpec == Init /\ [][StepNext]_vars

\* ------------------------------------------------- a row of an older store
\* schema.sql lets the six sub-document columns of reports be NULL, and a
\* TEXT column holds any text: a row written by an earlier version or by
\* hand may hold NULL or the empty text where the handlers write JSON.
LegacyTexts == {SQLNULL, "", JSON_stringify(JObj(2))}

LegacyRows ==
  {ReportRow("r1", 1, 0, docs) : docs \in [DocColumns -> LegacyTexts]}

\* one registered user with a session, and one such row of that user
LegacyInit ==
  /\ variant \in Variants
  /\ users = <<[id |-> 1, name |-> "Ana", email |-> EmailOrder[1], university |-> "UdeC",
                password |-> "pw1", token |-> randomUUID(1)]>>
  /\ lists = {}
  /\ listSeq = 0
  /\ reports \in {{r} : r \in LegacyRows}
  /\ uuids = 1
  /\ issued = {}
  /\ calls = [c \in Callers |-> Idle]

\* the owner reads the row, rewrites it or deletes it
LegacyNext ==
  \/ GetReports
  \/ GetReport
  \/ SearchReports
  \/ UpdateReport
  \/ DeleteReport

LegacySpec == LegacyInit /\ [][LegacyNext]_vars

TypeOK ==
  /\ variant \in Variants
  /\ uuids \in 0..MaxUuids
  /\ Len(users) <= Cardinality(Emails)
  /\ Cardinality(reports) <= MaxReports

\* ------------------------------------------------------------- properties
\* The properties below are stated over every request a caller may send in
\* the current state: Answer(request) is what the deployed entry point
\* returns and leaves behind when it serves the request now.
Answer(request) == Serve(variant, DB, uuids, request)

\* the header of the caller who holds the stored token of user i
TokenOf(i) == [scheme |-> "Bearer", cred |-> users[i].token]

NonAuthPaths == Paths \ AuthPaths

NumericListIds == {ToString(k) : k \in 1..(MaxLists + 1)}

\* unnamed/part_001 answers every request for /reports/search before it looks
\* for an identifier: there a report whose id is "search" has no /reports/{id}
Routable(id) == ~(variant = "pagesFixed" /\ id = "search")

\* The statement-by-statement account of a request and the entry point agree:
\* a request that runs alone, the store not failing, ends with the response,
\* the database and the UUIDs that Serve gives.
StepwiseRequests ==
  Requests(Methods, Paths, Auths, {EmptyBody, SuppliedDocs})
  \cup Requests({"POST"}, {<<"auth", "register">>}, {NoAuth}, RegisterBodies)
  \cup Requests({"POST"}, {<<"auth", "login">>}, {NoAuth}, LoginBodies)
  \cup Requests({"POST", "PUT"}, NonAuthPaths, BearerAuths,
                ReportBodies \cup UpdateBodies \cup SearchBodies \cup ListBodies)

StepsAgreeWithServe ==
  \A request \in StepwiseRequests :
    LET alone == RunAlone(variant, DB, uuids, request)
    IN /\ alone.call.state = "done"
       /\ alone.call.resp = Answer(request).resp
       /\ alone.db = Answer(request).db
       /\ alone.uuids = Answer(request).uuids

\* ---- C1
\* C1 as stated: a request to a path that is not under /auth/ and that
\* carries no bearer token gets 401, for every path and every method.
C1_EveryMethod401 ==
  \A m \in Methods, p \in NonAuthPaths, a \in NoTokenAuths, b \in {EmptyBody, SuppliedDocs} :
    Answer(Request(m, p, a, b)).resp.status = 401

\* C1 amended: a request with a method other than OPTIONS to a path that is
\* not under /auth/ and that carries no bearer token gets 401 (never 404 or
\* 500) and changes nothing; an OPTIONS request is the preflight and gets the
\* router's empty 200 whatever its path and token.
C1_NoToken401ExceptPreflight ==
  \A p \in NonAuthPaths, a \in NoTokenAuths, b \in {EmptyBody, SuppliedDocs} :
    /\ \A m \in Methods \ {"OPTIONS"} :
         LET out == Answer(Request(m, p, a, b))
         IN /\ out.resp.status = 401
            /\ out.resp.op = RouterOf(variant)
            /\ out.db = DB
    /\ LET out == Answer(Request("OPTIONS", p, a, b))
       IN out.resp.status = 200 /\ out.resp.op = RouterOf(variant) /\ out.db = DB

\* a stored report that its owner reads with the token and nobody reads without
C1_Witness ==
  \E r \in reports :
    /\ r.user_id \in 1..Len(users)
    /\ Answer(Request("GET", <<"reports", r.id>>, TokenOf(r.user_id), EmptyBody)).resp.status = 200
    /\ Answer(Request("GET", <<"reports", r.id>>, NoAuth, EmptyBody)).resp.status = 401
    /\ Answer(Request("OPTIONS", <<"reports", r.id>>, NoAuth, EmptyBody)).resp.status = 200

\* ---- C2
\* C2: GET /reports/{id} answers 200 only when a report with that id exists
\* and the caller owns it, and then the answer is that report; when the report
\* exists and another user owns it the answer is 404 and carries no report.
C2_GetReportOwnerOnly ==
  \A i \in 1..Len(users), id \in ReportPathIds :
    LET resp == Answer(Request("GET", <<"reports", id>>, TokenOf(i), EmptyBody)).resp
        mine == {r \in reports : r.id = id /\ r.user_id = i}
        theirs == {r \in reports : r.id = id /\ r.user_id # i}
    IN /\ resp.status = 200 =>
            /\ mine # {}
            /\ {[id |-> r.id, user_id |-> r.user_id, list_id |-> r.list_id] : r \in resp.reports}
                 = {[id |-> r.id, user_id |-> r.user_id, list_id |-> r.list_id] : r \in mine}
       /\ mine # {} /\ Routable(id) => resp.status = 200
       /\ theirs # {} /\ Routable(id) => resp.status = 404 /\ resp.reports = {}
       /\ theirs # {} => resp.status # 200 /\ resp.reports = {}

\* a report its owner reads (200) and the other user asks for (404)
C2_Witness ==
  \E r \in reports : \E i \in 1..Len(users) :
    /\ i # r.user_id
    /\ r.user_id \in 1..Len(users)
    /\ Answer(Request("GET", <<"reports", r.id>>, TokenOf(r.user_id), EmptyBody)).resp.status = 200
    /\ Answer(Request("GET", <<"reports", r.id>>, TokenOf(i), EmptyBody)).resp.status = 404

\* ---- C3
\* C3: PUT /reports/{id} and DELETE /reports/{id} by an authenticated user who
\* does not own the report leave the store as it was (the report, its owner,
\* its list and its six sub-documents) and never succeed; updateReport and
\* deleteReport answer 404, and functions/api/[[route]].js always reaches them.
C3_NonOwnerWriteRejected ==
  \A r \in reports : \A i \in 1..Len(users) :
    i # r.user_id =>
      \A m \in {"PUT", "DELETE"}, b \in UpdateBodies :
        LET out == Answer(Request(m, <<"reports", r.id>>, TokenOf(i), b))
        IN /\ out.db = DB
           /\ out.resp.status \notin {200, 201}
           /\ out.resp.op \in {"updateReport", "deleteReport"} => out.resp.status = 404
           /\ Routable(r.id) => out.resp.op = IF m = "PUT" THEN "updateReport" ELSE "deleteReport"

\* a report of one user and another registered user whose DELETE answers 404
C3_Witness ==
  \E r \in reports : \E i \in 1..Len(users) :
    /\ i # r.user_id
    /\ r.list_id # 0
    /\ Answer(Request("DELETE", <<"reports", r.id>>, TokenOf(i), EmptyBody)).resp.status = 404
    /\ Answer(Request("PUT", <<"reports", r.id>>, TokenOf(i), SuppliedDocs)).resp.status = 404

\* ---- C4
\* C4 as stated: DELETE /lists/{id} by an authenticated caller answers 404
\* when no list has that id and 403 when the list exists and another user
\* owns it; in both cases no list is removed and no report's list changes.
C4_DeleteListStatuses ==
  \A i \in 1..Len(users), id \in NumericListIds :
    LET out == Answer(Request("DELETE", <<"lists", id>>, TokenOf(i), EmptyBody))
        named == {l \in lists : ToString(l.id) = id}
    IN /\ named = {} => out.resp.status = 404 /\ out.db = DB
       /\ (named # {} /\ \A l \in named : l.user_id # i) => out.resp.status = 403 /\ out.db = DB

\* ---- C5
\* C5: for every successful registration, a login with the same email and
\* password answers 200 with a token that differs from the registration's
\* token (and from every token issued so far); every login recorded for the
\* user returned a token different from the registration's.
C5_LoginReissuesToken ==
  \A e \in issued :
    e.by = "registerUser" =>
      /\ LET out == Answer(Request("POST", <<"auth", "login">>, NoAuth,
                                   [EmptyBody EXCEPT !.email = e.email, !.password = e.password]))
         IN /\ out.resp.status = 200
            /\ out.resp.user.id = e.uid
            /\ out.resp.token # e.token
            /\ out.resp.token \notin {f.token : f \in issued}
      /\ \A f \in issued : f.by = "loginUser" /\ f.email = e.email => f.uid = e.uid /\ f.token # e.token

\* a registration followed by a login with its credentials
C5_Witness ==
  \E e \in issued : \E f \in issued :
    /\ e.by = "registerUser" /\ f.by = "loginUser"
    /\ f.email = e.email /\ f.password = e.password
    /\ f.seq > e.seq

\* ---- C6
\* registrations of either email with each other member absent, empty or one
\* of two values
C6_Bodies ==
  {[EmptyBody EXCEPT !.name = nm, !.email = e, !.university = u, !.password = pw] :
     nm \in {UNDEF, "", "Ana", "Eva"}, e \in Emails,
     u \in {UNDEF, "UdeC", "UCh"}, pw \in {UNDEF, "pw1", "pw2"}}

C6_Registered(email) == \E k \in 1..Len(users) : users[k].email = email

C6_AllPresent(b) == ~Falsy(b.name) /\ ~Falsy(b.university) /\ ~Falsy(b.password)

\* C6 as stated: a POST /auth/register whose email is already registered
\* answers 409 whatever the other members are, present or missing, and
\* creates no user and changes no user.
C6_DuplicateAlways409 ==
  \A b \in C6_Bodies :
    C6_Registered(b.email) =>
      LET out == Answer(Request("POST", <<"auth", "register">>, NoAuth, b))
      IN out.resp.status = 409 /\ out.db = DB

\* C6 amended: a POST /auth/register whose email is already registered
\* answers 409 whatever the values of name, university and password when the
\* three are present, and 400 when one of them is missing or empty; in both
\* cases it creates no user, changes no user and issues no token.
C6_DuplicateRejected ==
  \A b \in C6_Bodies :
    C6_Registered(b.email) =>
      LET out == Answer(Request("POST", <<"auth", "register">>, NoAuth, b))
      IN /\ out.resp.status = IF C6_AllPresent(b) THEN 409 ELSE 400
         /\ out.resp.op = "registerUser"
         /\ out.resp.token = ""
         /\ out.db = DB
         /\ out.uuids = uuids

\* both emails are registered: every registration in C6_Bodies is a duplicate
C6_Witness ==
  /\ Len(users) = 2
  /\ \A e \in Emails : C6_Registered(e)
  /\ \E b \in C6_Bodies :
       /\ \A k \in 1..Len(users) : users[k].name # b.name /\ users[k].password # b.password
       /\ Answer(Request("POST", <<"auth", "register">>, NoAuth, b)).resp.status = 409

\* ---- C7
\* the tokens drawn so far that resolve to user i
C7_LiveTokens(i) == {k \in 0..uuids : SelectUserByToken(DB, randomUUID(k)) = i}

C7_WhoAmI(D, token) ==
  Serve(variant, D, uuids, Request("GET", <<"auth", "me">>, [scheme |-> "Bearer", cred |-> token], EmptyBody)).resp

C7_Listing(D, token) ==
  Serve(variant, D, uuids, Request("GET", <<"reports">>, [scheme |-> "Bearer", cred |-> token], EmptyBody)).resp

C7_Latest(e) == \A f \in issued : f.uid = e.uid => f.seq <= e.seq

\* C7: at most one token resolves to a user. The token of the user's latest
\* registration or login resolves to the user in every later state, whatever
\* requests were served since (GET /auth/me answers 200 with that user, a
\* protected route does not answer 401), and every token issued to the user
\* before it is answered 401. A further login of the user returns a token
\* that resolves to the user, makes every token issued to the user so far
\* answer 401, and leaves the other users' tokens valid.
C7_OneLiveToken ==
  /\ \A i \in 1..Len(users) : Cardinality(C7_LiveTokens(i)) = 1
  /\ \A e \in issued :
       IF C7_Latest(e)
       THEN /\ C7_WhoAmI(DB, e.token).status = 200
            /\ C7_WhoAmI(DB, e.token).user.id = e.uid
            /\ C7_WhoAmI(DB, e.token).user.email = e.email
            /\ C7_Listing(DB, e.token).status = 200
            /\ C7_Listing(DB, e.token).uid = e.uid
       ELSE C7_WhoAmI(DB, e.token).status = 401 /\ C7_Listing(DB, e.token).status = 401
  /\ \A e \in issued :
       LET out == Answer(Request("POST", <<"auth", "login">>, NoAuth,
                                 [EmptyBody EXCEPT !.email = e.email, !.password = e.password]))
       IN /\ out.resp.status = 200
          /\ C7_WhoAmI(out.db, out.resp.token).status = 200
          /\ C7_WhoAmI(out.db, out.resp.token).user.id = e.uid
          /\ \A f \in issued :
               IF f.uid = e.uid
               THEN C7_WhoAmI(out.db, f.token).status = 401 /\ C7_Listing(out.db, f.token).status = 401
               ELSE C7_WhoAmI(out.db, f.token).status = C7_WhoAmI(DB, f.token).status

\* a user whose registration token a login has replaced, and whose login
\* token the next login replaces
C7_Witness ==
  \E e \in issued : \E f \in issued :
    /\ e.uid = f.uid
    /\ e.by = "registerUser" /\ f.by = "loginUser"
    /\ e.seq < f.seq
    /\ users[f.uid].token = f.token
    /\ C7_WhoAmI(DB, e.token).status = 401
    /\ C7_WhoAmI(DB, f.token).status = 200
    /\ LET out == Answer(Request("POST", <<"auth", "login">>, NoAuth,
                                 [EmptyBody EXCEPT !.email = f.email, !.password = f.password]))
       IN C7_WhoAmI(out.db, f.token).status = 401 /\ C7_WhoAmI(out.db, out.resp.token).status = 200

\* ---- C8
\* C8: a report created (POST /reports, 201) and read back by its owner
\* (GET /reports/{id}, 200) shows each of the six sub-documents equal to the
\* value supplied when that value is an object, an array or another truthy
\* value, and {} for infoGeneral, configuracion, feedback, resultados and []
\* for nivelesDesempeno, criterios when the member is omitted (or falsy).
C8_CreateReadRoundTrip ==
  \A i \in 1..Len(users), b \in ReportBodies :
    LET created == Answer(Request("POST", <<"reports">>, TokenOf(i), b))
    IN created.resp.status = 201 =>
         /\ Cardinality(created.db.reports \ reports) = 1
         /\ \A r \in created.db.reports \ reports :
              LET read == Serve(variant, created.db, created.uuids,
                                Request("GET", <<"reports", r.id>>, TokenOf(i), EmptyBody)).resp
              IN /\ r.user_id = i
                 /\ ~Falsy(b.id) => r.id = b.id
                 /\ Routable(r.id) =>
                      /\ read.status = 200
                      /\ Cardinality(read.reports) = 1
                      /\ \A got \in read.reports : \A f \in DocFields :
                           got[f] = IF Truthy(b[f]) THEN b[f]
                                    ELSE IF f \in SequenceFields THEN JArr(0) ELSE JObj(0)

\* a stored report created with the six sub-documents supplied, which its
\* owner reads back equal, and a creation with none that reads back {} and []
C8_Witness ==
  \E r \in reports :
    /\ r.user_id \in 1..Len(users)
    /\ \A c \in DocColumns : r[c] = encodedDocs(SuppliedDocs)[c]
    /\ LET read == Answer(Request("GET", <<"reports", r.id>>, TokenOf(r.user_id), EmptyBody)).resp
       IN /\ read.status = 200
          /\ \A got \in read.reports : \A f \in DocFields : got[f] = SuppliedDocs[f]
    /\ Answer(Request("POST", <<"reports">>, TokenOf(r.user_id), EmptyBody)).resp.status = 201

\* ---- C9
\* C9: DELETE /lists/{id} never deletes a report. When it deletes the list
\* (200), every report that referred to the list is still stored with no
\* list (NULL) and otherwise as it was, every other report is untouched, and
\* each report is still read by its owner with GET /reports and GET /reports/{id}.
C9_DeleteListKeepsReports ==
  \A i \in 1..Len(users), id \in ListPathIds :
    LET out == Answer(Request("DELETE", <<"lists", id>>, TokenOf(i), EmptyBody))
        gone == ListIds(DB) \ ListIds(out.db)
    IN /\ {r.id : r \in out.db.reports} = {r.id : r \in reports}
       /\ Cardinality(out.db.reports) = Cardinality(reports)
       /\ out.resp.status = 200 =>
            /\ gone # {}
            /\ out.db.reports = {IF r.list_id \in gone THEN [r EXCEPT !.list_id = 0] ELSE r : r \in reports}
            /\ \A r \in reports :
                 LET owner == [scheme |-> "Bearer", cred |-> out.db.users[r.user_id].token]
                     one == Serve(variant, out.db, out.uuids,
                                  Request("GET", <<"reports", r.id>>, owner, EmptyBody)).resp
                     all == Serve(variant, out.db, out.uuids,
                                  Request("GET", <<"reports">>, owner, EmptyBody)).resp
                 IN /\ all.status = 200
                    /\ \E got \in all.reports :
                         got.id = r.id /\ got.list_id = IF r.list_id \in gone THEN 0 ELSE r.list_id
                    /\ Routable(r.id) =>
                         /\ one.status = 200
                         /\ \A got \in one.reports :
                              got.id = r.id /\ got.list_id = IF r.list_id \in gone THEN 0 ELSE r.list_id

\* a list its owner deletes while a report refers to it
C9_Witness ==
  \E l \in lists : \E r \in reports :
    /\ r.list_id = l.id
    /\ LET out == Answer(Request("DELETE", <<"lists", ToString(l.id)>>, TokenOf(l.user_id), EmptyBody))
       IN /\ out.resp.status = 200
          /\ \E s \in out.db.reports : s.id = r.id /\ s.list_id = 0
          /\ l \notin out.db.lists

\* ---- C10
\* C10 as stated: /reports/search is matched before /reports/{id}: an
\* authenticated POST /reports/search is dispatched to searchReports, and no
\* request for /reports/search is dispatched to getReport, updateReport or
\* deleteReport with the id "search".
C10_StaticRouteFirst ==
  \A i \in 1..Len(users), m \in Methods, b \in SearchBodies :
    LET resp == Answer(Request(m, <<"reports", "search">>, TokenOf(i), b)).resp
    IN /\ m = "POST" => resp.op = "searchReports"
       /\ resp.op \notin {"getReport", "updateReport", "deleteReport"}

\* ---- C11
\* the route a path matches, "none" when it matches no route
C11_Route(p) ==
  CASE p = <<"reports">> -> "/reports"
    [] p = <<"reports", "search">> -> "/reports/search"
    [] Len(p) = 2 /\ p[1] = "reports" /\ p[2] # "search" -> "/reports/{id}"
    [] p = <<"lists">> -> "/lists"
    [] Len(p) = 2 /\ p[1] = "lists" -> "/lists/{id}"
    [] OTHER -> "none"

\* the verbs of a route
C11_Verbs(route) ==
  CASE route = "/reports" -> {"GET", "POST"}
    [] route = "/reports/search" -> {"POST"}
    [] route = "/reports/{id}" -> {"GET", "PUT", "DELETE"}
    [] route = "/lists" -> {"GET", "POST"}
    [] route = "/lists/{id}" -> {"GET", "PUT", "DELETE"}
    [] OTHER -> {}

\* C11 as stated: for every authenticated request (the preflight aside) the
\* router answers 405 exactly when the path matches a route whose verbs do
\* not include the method, and 404 exactly when the path matches no route;
\* POST /reports/{id} is 405.
C11_MethodNotAllowedVsNotFound ==
  \A i \in 1..Len(users), m \in Methods \ {"OPTIONS"}, p \in NonAuthPaths :
    LET resp == Answer(Request(m, p, TokenOf(i), EmptyBody)).resp
        route == C11_Route(p)
    IN /\ (route # "none" /\ m \notin C11_Verbs(route)) => resp.status = 405
       /\ route = "none" => resp.status = 404
       /\ resp.op = RouterOf(variant) /\ resp.status = 405 => route # "none" /\ m \notin C11_Verbs(route)
       /\ resp.op = RouterOf(variant) /\ resp.status = 404 => route = "none"

\* ---- C12
\* C12 as stated: in each variant, DELETE /lists/{id} by the owner of a
\* stored list answers 200, removes the list and no other list, and the
\* owner's next GET /lists does not show it (list ids are never used again:
\* no stored list has an id above the last one drawn).
C12_OwnerDeletesList ==
  /\ \A l \in lists : l.id <= listSeq
  /\ \A l \in lists :
       LET out == Answer(Request("DELETE", <<"lists", ToString(l.id)>>, TokenOf(l.user_id), EmptyBody))
           later == Serve(variant, out.db, out.uuids,
                          Request("GET", <<"lists">>, TokenOf(l.user_id), EmptyBody)).resp
       IN /\ out.resp.status = 200
          /\ out.db.lists = lists \ {l}
          /\ out.db.listSeq = listSeq
          /\ later.status = 200
          /\ \A got \in later.lists : got.id # l.id

\* ---- C13
\* C13 as stated: a POST /reports that answers 201 returns the id under
\* which the report was stored, when the caller supplied the id and when the
\* id was generated, and GET /reports/{id} with the returned id answers 200
\* with that report.
C13_CreateReturnsStoredId ==
  \A i \in 1..Len(users), b \in ReportBodies :
    LET created == Answer(Request("POST", <<"reports">>, TokenOf(i), b))
    IN created.resp.status = 201 =>
         \A r \in created.db.reports \ reports :
           LET read == Serve(variant, created.db, created.uuids,
                             Request("GET", <<"reports", created.resp.retId>>, TokenOf(i), EmptyBody)).resp
           IN /\ created.resp.retId = r.id
              /\ Routable(r.id) => read.status = 200 /\ \A got \in read.reports : got.id = r.id

\* ---- C14
\* the empty default of a sub-document
C14_Default(f) == IF f \in SequenceFields THEN JArr(0) ELSE JObj(0)

\* the owner's PUT of body b on the stored report r, and the owner's read after it
C14_Put(r, b) == Answer(Request("PUT", <<"reports", r.id>>, TokenOf(r.user_id), b))

C14_ReadAfter(r, b) ==
  Serve(variant, C14_Put(r, b).db, uuids,
        Request("GET", <<"reports", r.id>>, TokenOf(r.user_id), EmptyBody)).resp

\* the PUT left every row but r as it was, and r with its id and owner
C14_InPlace(r, b) ==
  /\ reports \ {r} \subseteq C14_Put(r, b).db.reports
  /\ Cardinality(C14_Put(r, b).db.reports) = Cardinality(reports)
  /\ \A s \in C14_Put(r, b).db.reports \ (reports \ {r}) : s.id = r.id /\ s.user_id = r.user_id
  /\ C14_Put(r, b).db.users = users /\ C14_Put(r, b).db.lists = lists

\* PUT /reports/{id} when the caller owns no report with that id
C14_NoSuchRow(status(_)) ==
  \A i \in 1..Len(users), id \in ReportPathIds, b \in UpdateBodies :
    (Routable(id) /\ ~\E r \in reports : r.id = id /\ r.user_id = i) =>
      LET out == Answer(Request("PUT", <<"reports", id>>, TokenOf(i), b))
      IN out.resp.status = status(b) /\ out.db = DB

C15_PreflightTouchesNothing ==
  /\ (\A c \in Callers : calls[c].state = "idle") =>
     \A p \in Paths, a \in Auths, b \in {EmptyBody, SuppliedDocs} :
       LET request == Request("OPTIONS", p, a, b)
           call == StartCall(variant, DB, uuids, request)
       IN /\ call.state = "done"
          /\ call.trace = <<>>
          /\ call.resp = Response(RouterOf(variant), 200, "")
          /\ RunAlone(variant, DB, uuids, request).db = DB
          /\ RunAlone(variant, DB, uuids, request).uuids = uuids
  /\ \A c \in Callers :
       calls[c].state # "idle" /\ calls[c].request.method = "OPTIONS" =>
         /\ calls[c].state = "done"
         /\ calls[c].trace = <<>>
         /\ ~calls[c].faulted
         /\ calls[c].resp = Response(RouterOf(variant), 200, "")

\* a caller's OPTIONS request for /lists/1 with the token of a stored user,
\* answered while the other caller's request awaits the store
C15_Witness ==
  /\ calls[1].state = "done"
  /\ calls[1].request.method = "OPTIONS"
  /\ calls[1].request.path = <<"lists", "1">>
  /\ calls[1].request.auth \in BearerAuths
  /\ calls[1].resp.status = 200
  /\ calls[2].state \in {"lookup", "first", "second"}

\* ---- C16
\* the handlers of the report and list routes
C16_Handlers ==
  {"getReports", "createReport", "getReport", "updateReport", "deleteReport", "searchReports",
   "getLists", "createList", "deleteList", "getList", "updateList"}

\* how many times the call has done the event
C16_Count(call, event) == Cardinality({k \in DOMAIN call.trace : call.trace[k] = event})

\* C16: a request that has entered a report or list handler has made exactly
\* one session lookup, before the dispatch and the handler; the lookup
\* returned a stored user, to whom the request's token was issued, and the
\* handler acts with that user's id (also when the other caller's request
\* ran in between). No request makes more than one lookup, a request whose
\* lookup found no user enters no handler, and a request under /auth/ that
\* reaches registerUser or loginUser has made no lookup.
C16_LookupOnceBeforeHandler ==
  \A c \in Callers :
    LET call == calls[c]
    IN call.state # "idle" =>
         /\ C16_Count(call, "findUserByToken") <= 1
         /\ (\E h \in C16_Handlers : C16_Count(call, h) > 0) =>
              /\ call.op \in C16_Handlers
              /\ C16_Count(call, "findUserByToken") = 1
              /\ Len(call.trace) >= 3
              /\ call.trace[1] = "findUserByToken" /\ call.trace[2] = "dispatch" /\ call.trace[3] = call.op
              /\ \A k \in 4..Len(call.trace) : call.trace[k] = "statement"
              /\ call.userId \in 1..Len(users)
              /\ \E e \in issued : e.token = extractToken(call.request) /\ e.uid = call.userId
              /\ call.state = "done" => call.resp.uid = call.userId
         /\ (call.state = "done" /\ call.resp.status = 401 /\ ~StartsWith(call.request.path, "auth")) =>
              \A h \in C16_Handlers : C16_Count(call, h) = 0
         /\ (C16_Count(call, "registerUser") + C16_Count(call, "loginUser") > 0) =>
              /\ StartsWith(call.request.path, "auth")
              /\ call.trace[1] = "handleAuth"
              /\ C16_Count(call, "findUserByToken") = 0
              /\ C16_Count(call, "dispatch") = 0

\* the first caller has logged in (200, no lookup) between the lookup and the
\* DELETE of the second caller, who sent the token the login replaced: the
\* delete was made with the id of the user the lookup returned
C16_Witness ==
  /\ calls[1].state = "done" /\ calls[1].op = "loginUser" /\ calls[1].resp.status = 200
  /\ calls[2].state = "done" /\ calls[2].op = "deleteReport" /\ calls[2].resp.status = 200
  /\ calls[2].userId = calls[1].resp.user.id
  /\ users[calls[2].userId].token # extractToken(calls[2].request)
  /\ calls[2].trace = <<"findUserByToken", "dispatch", "deleteReport", "statement">>

\* ---- C17
\* C17 as stated: in every variant, a request one of whose store statements
\* (the session lookup included) failed ends with a JSON error {message} of
\* a status that is not 2xx; no failure leaves the entry point unhandled.
C17_StoreFailureAnswered ==
  \A c \in Callers :
    calls[c].faulted =>
      /\ calls[c].state = "done"
      /\ calls[c].resp.status \notin 200..299
      /\ calls[c].resp.message \notin {"", UNHANDLED}

\* ---- C18
\* the two callers have sent DELETE for the same path in paths with the same
\* token, and both requests are answered, the store not having failed
C18_BothDeleted(paths) ==
  /\ calls[1].state = "done" /\ calls[2].state = "done"
  /\ ~calls[1].faulted /\ ~calls[2].faulted
  /\ calls[1].request.method = "DELETE" /\ calls[2].request.method = "DELETE"
  /\ calls[1].request.path = calls[2].request.path
  /\ calls[1].request.path \in paths
  /\ calls[1].request.auth = calls[2].request.auth
  /\ {calls[1].target, calls[2].target} \subseteq {"own", "none"}

\* when both requests were sent while the caller's row was stored one answer
\* is 200 and the other 404; when it was stored for neither, both are 404;
\* no answer is anything else than 200 or 404, and the caller's row is gone
C18_OneWins ==
  /\ {calls[1].resp.status, calls[2].resp.status} \subseteq {200, 404}
  /\ ~(calls[1].resp.status = 200 /\ calls[2].resp.status = 200)
  /\ (calls[1].target = "own" /\ calls[2].target = "own")
        => 200 \in {calls[1].resp.status, calls[2].resp.status}
  /\ (calls[1].target = "none" /\ calls[2].target = "none")
        => 200 \notin {calls[1].resp.status, calls[2].resp.status}
  /\ calls[1].request.path = <<"reports", "r1">> =>
       ~\E r \in reports : r.id = "r1" /\ r.user_id = calls[1].userId
  /\ calls[1].request.path = <<"lists", "1">> =>
       ~\E l \in lists : l.id = 1 /\ l.user_id = calls[1].userId

\* C18 as stated: two concurrent DELETE requests of one caller for the same
\* report or the same list are answered, in every interleaving of their
\* store statements, 200 and 404 (404 both when the caller has no such row):
\* no other status, never 200 twice, and the row is gone.
C18_ConcurrentDeletes ==
  C18_BothDeleted({<<"reports", "r1">>, <<"lists", "1">>}) => C18_OneWins

\* the same for DELETE /reports/{id} alone
C18_ConcurrentReportDeletes ==
  C18_BothDeleted({<<"reports", "r1">>}) => C18_OneWins

\* ---- C19
\* logins with each member absent, empty, wrong or right
C19_Bodies ==
  {[EmptyBody EXCEPT !.email = e, !.password = pw] :
     e \in Emails \cup {UNDEF, "", "c@x.com"}, pw \in Passwords \cup {UNDEF, ""}}

C19_Login(b) == Answer(Request("POST", <<"auth", "login">>, NoAuth, b))

\* the stored users with exactly this email and password
C19_Matches(b) == {i \in 1..Len(users) : users[i].email = b.email /\ users[i].password = b.password}

\* C19: POST /auth/login answers 400 when email or password is missing and
\* 401 when no stored user has exactly that email and password, and then the
\* users table is what it was; any answer but 200 leaves every stored token
\* alone, and a 200 changes the token of the matched user and nothing else.
C19_FailedLoginKeepsTokens ==
  \A b \in C19_Bodies :
    LET out == C19_Login(b)
        missing == Falsy(b.email) \/ Falsy(b.password)
    IN /\ missing => out.resp.status = 400
       /\ (~missing /\ C19_Matches(b) = {}) => out.resp.status = 401
       /\ out.resp.status \in {400, 401} => out.db = DB
       /\ out.resp.status # 200 =>
            /\ Len(out.db.users) = Len(users)
            /\ \A i \in 1..Len(users) : out.db.users[i].token = users[i].token
       /\ out.resp.status = 200 =>
            /\ ~missing
            /\ out.resp.user.id \in C19_Matches(b)
            /\ out.db.users[out.resp.user.id].token # users[out.resp.user.id].token
            /\ out.db = [DB EXCEPT !.users[out.resp.user.id].token = out.resp.token]

\* two users are stored; one login is answered 400, one 401, and one 200
C19_Witness ==
  /\ Len(users) = 2
  /\ \E b \in C19_Bodies : C19_Login(b).resp.status = 400
  /\ \E b \in C19_Bodies : C19_Login(b).resp.status = 401 /\ b.email = users[1].email
  /\ \E b \in C19_Bodies : C19_Login(b).resp.status = 200 /\ C19_Login(b).resp.user.id = 2

\* ---- C20
\* searches with title and student absent, stored or not stored
C20_Bodies ==
  {[EmptyBody EXCEPT !.title = t, !.student = st] :
     t \in {UNDEF, "T2", "T1", ""}, st \in {UNDEF, "E2", "E1", ""}}

\* the rows of an answer and of the store, without the sub-documents
C20_Keys(rs) == {[id |-> r.id, user_id |-> r.user_id, list_id |-> r.list_id] : r \in rs}

\* tituloEvaluacion and nombreEstudiante of a stored general-info document
C20_Info(r, member) ==
  LET v == JSON_parse(r.info_general)
  IN IF v.t = "object" /\ v.n > 1
     THEN (IF member = "tituloEvaluacion" THEN "T" ELSE "E") \o ToString(v.n)
     ELSE UNDEF

\* the listings of every stored user, the searches sent to searchPath
C20_Listings(searchPath, searches) ==
  \A i \in 1..Len(users) :
    LET all == Answer(Request("GET", <<"reports">>, TokenOf(i), EmptyBody)).resp
        mine == Answer(Request("GET", <<"lists">>, TokenOf(i), EmptyBody)).resp
    IN /\ all.status = 200
       /\ C20_Keys(all.reports) = C20_Keys({r \in reports : r.user_id = i})
       /\ mine.status = 200
       /\ mine.lists = {l \in lists : l.user_id = i}
       /\ \A b \in searches :
            LET found == Answer(Request("POST", searchPath, TokenOf(i), b)).resp
            IN /\ \A r \in found.reports : r.user_id = i
               /\ (b.title # UNDEF /\ b.student # UNDEF) =>
                    /\ found.status = 200
                    /\ C20_Keys(found.reports)
                         = C20_Keys({r \in reports : /\ r.user_id = i
                                                     /\ C20_Info(r, "tituloEvaluacion") = b.title
                                                     /\ C20_Info(r, "nombreEstudiante") = b.student})

\* C20 as stated: in every reachable state and for every stored user,
\* GET /reports answers 200 with all the reports of that user and no other
\* row, GET /lists answers 200 with all the lists of that user and no other
\* row, and POST /reports/search returns no row of another user and, when
\* title and student are given, answers 200 with exactly the user's reports
\* whose general-info title and student equal them.
C20_ListingsAreTheCallers == C20_Listings(<<"reports", "search">>, C20_Bodies)

\* the same with the search sent to the path that reaches searchReports:
\* /reports/{id}/search in functions/api/[[route]].js, none in unnamed/part_000
C20_HandlersReturnTheCallers ==
  C20_Listings(IF variant = "pages" THEN <<"reports", "r1", "search">> ELSE <<"reports", "search">>,
               IF variant = "worker" THEN {} ELSE C20_Bodies)

\* two users, a list and a report with a title: its owner's listings and
\* search return them, the other user's return nothing
C20_Witness ==
  /\ Len(users) = 2
  /\ \E r \in reports : \E l \in lists : \E i \in 1..Len(users) :
       /\ r.user_id = l.user_id /\ i # r.user_id
       /\ C20_Info(r, "tituloEvaluacion") = "T2"
       /\ \E b \in C20_Bodies :
            /\ Answer(Request("POST", <<"reports", "search">>, TokenOf(r.user_id), b)).resp.reports # {}
            /\ Answer(Request("POST", <<"reports", "search">>, TokenOf(i), b)).resp.status = 200
            /\ Answer(Request("POST", <<"reports", "search">>, TokenOf(i), b)).resp.reports = {}
       /\ Answer(Request("GET", <<"reports">>, TokenOf(r.user_id), EmptyBody)).resp.reports # {}
       /\ Answer(Request("GET", <<"reports">>, TokenOf(i), EmptyBody)).resp.reports = {}
       /\ Answer(Request("GET", <<"lists">>, TokenOf(r.user_id), EmptyBody)).resp.lists = {l}
       /\ Answer(Request("GET", <<"lists">>, TokenOf(i), EmptyBody)).resp.lists = {}

\* ---- C21
\* the requests that need a session: any method but OPTIONS on a path outside
\* /auth/, and GET /auth/me
C21_Paths ==
  {<<"reports">>, <<"reports", "r1">>, <<"reports", "search">>, <<"lists">>, <<"lists", "1">>,
   <<"other">>, <<"auth">>}

C21_Requests(auths) ==
  Requests(Methods \ {"OPTIONS"}, C21_Paths, auths, {EmptyBody})
  \cup Requests({"GET"}, {<<"auth", "me">>}, auths, {EmptyBody})

C21_NoBearer == {a \in Auths : a.scheme # "Bearer"}

\* a Bearer header with a UUID that was never drawn
C21_NeverDrawn == [scheme |-> "Bearer", cred |-> randomUUID(0)]

C21_Is(resp, message) == resp.status = 401 /\ resp.message = message

C21_LooksUp(call) == \E k \in DOMAIN call.trace : call.trace[k] \in {"findUserByToken", "statement"}

\* C21: a request that needs a session and has no Authorization header, or one
\* of another scheme than Bearer, is answered 401 "Authentication required"
\* and makes no session lookup and no store statement; one with a Bearer token
\* that is no stored user's is answered 401 "Invalid token" after one lookup.
\* This holds on the routes outside /auth/ and on GET /auth/me, for every
\* request that may be sent while no request is in flight, and for every
\* request a caller has sent while the other caller's was in flight (there
\* with a token that was never any user's, and while the store works).
C21_NoTokenVsInvalidToken ==
  /\ (\A c \in Callers : calls[c].state \in {"idle", "done"}) =>
       /\ \A request \in C21_Requests(C21_NoBearer) :
            LET call == StartCall(variant, DB, uuids, request)
            IN /\ call.state = "done"
               /\ C21_Is(call.resp, "Authentication required")
               /\ ~C21_LooksUp(call)
       /\ \A request \in C21_Requests(StaleAuths) :
            LET sent == StartCall(variant, DB, uuids, request)
                call == StepCall(variant, DB, uuids, sent, FALSE).call
            IN /\ sent.state = "lookup"
               /\ call.state = "done"
               /\ C21_Is(call.resp, "Invalid token")
               /\ C16_Count(call, "findUserByToken") = 1
               /\ C16_Count(call, "statement") = 0
  /\ \A c \in Callers :
       (calls[c].state # "idle" /\ calls[c].request \in C21_Requests({calls[c].request.auth})) =>
         /\ calls[c].request.auth.scheme # "Bearer" =>
              /\ calls[c].state = "done"
              /\ C21_Is(calls[c].resp, "Authentication required")
              /\ ~C21_LooksUp(calls[c])
         /\ (calls[c].request.auth = C21_NeverDrawn /\ calls[c].state = "done" /\ ~calls[c].faulted) =>
              /\ C21_Is(calls[c].resp, "Invalid token")
              /\ C16_Count(calls[c], "findUserByToken") = 1

\* a caller's GET /reports without a header and its GET /auth/me with a token
\* that is no user's, both answered while the other caller's request awaits
\* the store
C21_Witness ==
  /\ calls[2].state \in {"lookup", "first", "second"}
  /\ calls[1].state = "done" /\ ~calls[1].faulted
  /\ \/ /\ calls[1].request.path = <<"auth", "me">>
        /\ calls[1].request.auth = C21_NeverDrawn
        /\ C21_Is(calls[1].resp, "Invalid token")
     \/ /\ calls[1].request.path = <<"reports">> /\ calls[1].request.method = "GET"
        /\ calls[1].request.auth = NoAuth
        /\ C21_Is(calls[1].resp, "Authentication required")

\* ---- C22
\* paths with a segment after the identifier
C22_Paths == {p \in ReportPaths \cup ListPaths : Len(p) = 3}

\* C22 as stated: a request of a stored user for /reports/{a}/{b} or
\* /lists/{a}/{b} is answered 404 by the router and reaches no report or list
\* handler; the store stays as it was.
C22_ExtraSegmentNotFound ==
  \A i \in 1..Len(users), m \in Methods \ {"OPTIONS"}, p \in C22_Paths, b \in {EmptyBody, SuppliedDocs} :
    LET out == Answer(Request(m, p, TokenOf(i), b))
    IN /\ out.resp.status = 404
       /\ out.resp.op = RouterOf(variant)
       /\ out.db = DB

\* ---- C23
\* what the claim wants stored for member f of body b: the encoding of the
\* supplied value, the empty default for a member the body lacks
C23_Stored(b, f) ==
  IF b[f] = Undefined THEN JSON_stringify(C14_Default(f)) ELSE JSON_stringify(b[f])

C23_Encodes(rows, b) ==
  \A r \in rows : \A f \in DocFields : r[ColumnOf(f)] = C23_Stored(b, f)

\* C23 as stated: after a successful POST /reports or PUT /reports/{id} every
\* sub-document column of the written row holds the encoding of the value the
\* body supplied for it, and the empty default ({} or []) only where the body
\* has no such member.
C23_SuppliedValueStored ==
  /\ \A i \in 1..Len(users), b \in ReportBodies :
       LET created == Answer(Request("POST", <<"reports">>, TokenOf(i), b))
       IN created.resp.status = 201 => C23_Encodes(created.db.reports \ reports, b)
  /\ \A r \in reports, b \in UpdateBodies :
       LET updated == Answer(Request("PUT", <<"reports", r.id>>, TokenOf(r.user_id), b))
       IN updated.resp.status = 200 =>
            C23_Encodes({x \in updated.db.reports : x.id = r.id}, b)

\* what is stored for member f of body b: the encoding of a supplied object,
\* array or number other than 0, the empty default for an absent member and
\* for a supplied null or 0
C23_StoredOrDefault(b, f) ==
  IF b[f] \in {Undefined, JNull, JNum(0)} THEN JSON_stringify(C14_Default(f)) ELSE JSON_stringify(b[f])

\* C23 amended: after a successful POST /reports or PUT /reports/{id} every
\* sub-document column of the written row holds the encoding of the supplied
\* value when that value is an object, an array or another truthy value, and
\* the empty default of the column ({} or []) when the member is absent or
\* its value is falsy (null, 0).
C23_TruthyValueStored ==
  /\ \A i \in 1..Len(users), b \in ReportBodies :
       LET created == Answer(Request("POST", <<"reports">>, TokenOf(i), b))
       IN created.resp.status = 201 =>
            \A r \in created.db.reports \ reports : \A f \in DocFields :
              r[ColumnOf(f)] = C23_StoredOrDefault(b, f)
  /\ \A r \in reports, b \in UpdateBodies :
       LET updated == Answer(Request("PUT", <<"reports", r.id>>, TokenOf(r.user_id), b))
       IN updated.resp.status = 200 =>
            \A x \in {y \in updated.db.reports : y.id = r.id} : \A f \in DocFields :
              x[ColumnOf(f)] = C23_StoredOrDefault(b, f)

\* a stored report whose owner's PUT with objects and arrays, with null and 0,
\* and without sub-documents is answered 200, and a user whose POST with
\* null and 0 is answered 201
C23_Witness ==
  /\ \E r \in reports : \A b \in {SuppliedDocs, EdgeDocs, EmptyBody} :
       /\ Answer(Request("PUT", <<"reports", r.id>>, TokenOf(r.user_id), b)).resp.status = 200
       /\ r.info_general = JSON_stringify(SuppliedDocs.infoGeneral)
  /\ \E i \in 1..Len(users) :
       Answer(Request("POST", <<"reports">>, TokenOf(i), [EdgeDocs EXCEPT !.id = "search"])).resp.status = 201

\* ---- C24
\* the owner's read of the stored report r by GET /reports/{id}, GET /reports
\* and the search for the title and student of the legacy texts
C24_Reads(r) ==
  {Answer(Request("GET", <<"reports", r.id>>, TokenOf(r.user_id), EmptyBody)).resp,
   Answer(Request("GET", <<"reports">>, TokenOf(r.user_id), EmptyBody)).resp}

C24_Search(r, path) ==
  Answer(Request("POST", path, TokenOf(r.user_id),
                 [EmptyBody EXCEPT !.title = "T2", !.student = "E2"])).resp

\* member f of the answer holds the empty default wherever r's column is NULL
\* or empty
C24_Defaulted(resp, r) ==
  \A got \in resp.reports : \A f \in DocFields :
    (got.id = r.id /\ r[ColumnOf(f)] \in {SQLNULL, ""}) => got[f] = C14_Default(f)

\* the path that reaches searchReports: /reports/{id}/search in
\* functions/api/[[route]].js, /reports/search in unnamed/part_001
C24_SearchPath == IF variant = "pages" THEN <<"reports", "r1", "search">> ELSE <<"reports", "search">>

\* the reads of the rows with a NULL or empty sub-document column (no request
\* reaches searchReports in unnamed/part_000)
C24_Lenient(variants) ==
  variant \in variants =>
    \A r \in reports :
      (\E c \in DocColumns : r[c] \in {SQLNULL, ""}) =>
        /\ \A resp \in C24_Reads(r) :
             /\ resp.status = 200
             /\ \E got \in resp.reports : got.id = r.id
             /\ C24_Defaulted(resp, r)
        /\ variant # "worker" =>
             /\ C24_Search(r, C24_SearchPath).status = 200
             /\ C24_Defaulted(C24_Search(r, C24_SearchPath), r)
             /\ json_extract(r.info_general, "tituloEvaluacion") = "T2" =>
                  \E got \in C24_Search(r, C24_SearchPath).reports : got.id = r.id

\* C24 as stated: in every variant, GET /reports/{id}, GET /reports and the
\* search of a report with a sub-document column that is NULL or empty are
\* answered 200 and yield {} for the object members and [] for
\* nivelesDesempeno and criterios in place of that column.
C24_LenientDecode == C24_Lenient(Variants)

\* the same in the two Pages functions
C24_PagesLenientDecode == C24_Lenient({"pages", "pagesFixed"})

\* ---- C25
\* every method, path and header without a body, and the registrations,
\* logins, report bodies and searches on their routes
C25_Requests ==
  Requests(Methods, Paths, Auths, {EmptyBody})
  \cup Requests({"POST"}, {<<"auth", "register">>}, {NoAuth}, RegisterBodies)
  \cup Requests({"POST"}, {<<"auth", "login">>}, {NoAuth}, LoginBodies)
  \cup Requests({"POST"}, {<<"reports">>, <<"reports", "search">>, <<"lists">>}, BearerAuths,
                 {[SuppliedDocs EXCEPT !.id = "r1"], [EmptyBody EXCEPT !.title = "T2", !.student = "E2"],
                  [EmptyBody EXCEPT !.name = "Seccion 1"]})

\* the members of the response's user object and the texts of the response
C25_UserMembers(resp) == DOMAIN resp.user

C25_OtherTexts(resp) ==
  {resp.message, resp.retId} \cup {resp.user[m] : m \in DOMAIN resp.user \ {"id"}}

C25_Texts(resp) == {resp.token} \cup C25_OtherTexts(resp)

\* C25: no response holds a stored user's password; a response holds a stored
\* user's token only as the token member of the 200 or 201 of a login or a
\* registration whose body has that user's email and password; the user
\* object of every response, that of GET /auth/me included, and the result
\* of the session lookup have the members id, name, email and university and
\* no other.
C25_NoSecretLeaves ==
  /\ \A request \in C25_Requests :
       LET out == Answer(request)
           resp == out.resp
           rows == {users[k] : k \in 1..Len(users)} \cup {out.db.users[k] : k \in 1..Len(out.db.users)}
       IN /\ C25_UserMembers(resp) = {"id", "name", "email", "university"}
          /\ \A u \in rows :
               /\ u.password \notin C25_Texts(resp)
               /\ u.token \in C25_Texts(resp) =>
                    /\ resp.op \in {"registerUser", "loginUser"}
                    /\ resp.status \in {200, 201}
                    /\ resp.token = u.token
                    /\ u.token \notin C25_OtherTexts(resp)
                    /\ resp.user.id = u.id
                    /\ request.body.email = u.email /\ request.body.password = u.password
                    /\ u \in {out.db.users[k] : k \in 1..Len(out.db.users)}
  /\ \A i \in 1..Len(users) :
       /\ DOMAIN findUserByToken(DB, users[i].token) = {"id", "name", "email", "university"}
       /\ LET resp == Answer(Request("GET", <<"auth", "me">>, TokenOf(i), EmptyBody)).resp
          IN /\ resp.status = 200
             /\ resp.user = [id |-> i, name |-> users[i].name, email |-> users[i].email,
                              university |-> users[i].university]
             /\ resp.token = ""

\* two users: a login of the second answers with its new token, GET /auth/me
\* of the first with its public members
C25_Witness ==
  /\ Len(users) = 2
  /\ \E request \in C25_Requests :
       /\ Answer(request).resp.op = "loginUser"
       /\ Answer(request).resp.status = 200
       /\ Answer(request).resp.user.id = 2
       /\ Answer(request).resp.token \notin {"", users[1].token, users[2].token}
  /\ Answer(Request("GET", <<"auth", "me">>, TokenOf(1), EmptyBody)).resp.user.email = users[1].email

\* ---- C26
\* every method on every path with every header and the bodies of the routes
C26_Requests ==
  Requests(Methods, Paths, Auths, {EmptyBody, SuppliedDocs})
  \cup Requests({"POST", "PUT"}, AuthPaths, {NoAuth} \cup BearerAuths, RegisterBodies \cup LoginBodies)

\* the row without its token
C26_Identity(u) ==
  [id |-> u.id, name |-> u.name, email |-> u.email, university |-> u.university, password |-> u.password]

\* C26: whatever the request, every stored user is still stored afterwards
\* with the same id, name, email, university and password; a user is added
\* only by a registration answered 201, one at a time; a stored token changes
\* only by a login answered 200, and only the token of the user it returns.
C26_UsersOnlyGrow ==
  \A request \in C26_Requests :
    LET out == Answer(request)
        after == out.db.users
    IN /\ Len(after) >= Len(users)
       /\ \A k \in 1..Len(users) : C26_Identity(after[k]) = C26_Identity(users[k])
       /\ Len(after) > Len(users) =>
            /\ Len(after) = Len(users) + 1
            /\ out.resp.op = "registerUser" /\ out.resp.status = 201
            /\ out.resp.user.id = Len(after)
       /\ \A k \in 1..Len(users) :
            after[k].token # users[k].token =>
              /\ out.resp.op = "loginUser" /\ out.resp.status = 200
              /\ out.resp.user.id = k
              /\ Len(after) = Len(users)

\* a user is stored, a registration of another email is answered 201, a
\* registration of the stored email 409, and a login 200
C26_Witness ==
  /\ Len(users) = 1
  /\ \E request \in C26_Requests :
       Answer(request).resp.op = "registerUser" /\ Answer(request).resp.status = 201
  /\ \E request \in C26_Requests :
       Answer(request).resp.op = "registerUser" /\ Answer(request).resp.status = 409
  /\ \E request \in C26_Requests :
       Answer(request).resp.op = "loginUser" /\ Answer(request).resp.status = 200
  /\ \E e \in issued : e.by = "loginUser"

\* ---- C27
\* the store failed in the call's session lookup
C27_LookupFailed(call) ==
  /\ call.faulted
  /\ call.trace # <<>>
  /\ call.trace[Len(call.trace)] = "findUserByToken"

\* C27: in the two Pages functions a request whose session lookup failed in
\* the store is answered 401 "Invalid token", on the routes outside /auth/
\* and on GET /auth/me, also when its token is a stored user's; it was not
\* dispatched, entered no handler and made no store statement after the
\* lookup.
C27_LookupFailureIs401 ==
  \A c \in Callers :
    (variant \in {"pages", "pagesFixed"} /\ C27_LookupFailed(calls[c])) =>
      /\ calls[c].state = "done"
      /\ calls[c].resp.status = 401
      /\ calls[c].resp.message = "Invalid token"
      /\ C16_Count(calls[c], "findUserByToken") = 1
      /\ \A k \in DOMAIN calls[c].trace : calls[c].trace[k] \in {"handleAuth", "findUserByToken"}
      /\ calls[c].userId = 0

\* a Pages function answers the owner's DELETE /reports/r1, sent with the
\* stored token, 401 after its lookup failed, and the report is still stored
C27_Witness ==
  /\ variant \in {"pages", "pagesFixed"}
  /\ C27_LookupFailed(calls[2])
  /\ calls[2].request.path = <<"reports", "r1">>
  /\ calls[2].target = "own"
  /\ calls[2].resp.status = 401
  /\ \E r \in reports : r.id = "r1"
  /\ \E i \in 1..Len(users) : users[i].token = extractToken(calls[2].request)

\* ---- C28
\* both callers have sent a registration with the same email and both are
\* answered, the store not having failed
C28_BothRegistered ==
  /\ \A c \in Callers :
       /\ calls[c].state = "done" /\ ~calls[c].faulted
       /\ calls[c].op = "registerUser"
       /\ C16_Count(calls[c], "statement") > 0
  /\ calls[1].request.body.email = calls[2].request.body.email

\* C28: no two stored users have the same email, in every state of every
\* interleaving; of two registrations of one email that were in flight
\* together at most one is answered 201, the other 409 or 500, the user of
\* the 201 is the only stored user with that email, and the registration
\* that failed has left no row (its token is no stored user's).
C28_EmailsUnique ==
  /\ \A i, j \in 1..Len(users) : users[i].email = users[j].email => i = j
  /\ C28_BothRegistered =>
       /\ \A c \in Callers : calls[c].resp.status \in {201, 409, 500}
       /\ ~(calls[1].resp.status = 201 /\ calls[2].resp.status = 201)
       /\ \A c \in Callers :
            /\ calls[c].resp.status = 201 =>
                 /\ calls[c].resp.user.id \in 1..Len(users)
                 /\ users[calls[c].resp.user.id].email = calls[c].request.body.email
            /\ calls[c].resp.status # 201 =>
                 \A i \in 1..Len(users) : calls[c].local = 0 \/ users[i].token # randomUUID(calls[c].local)

\* both registrations found the email unregistered: one is answered 201 and
\* the other 500, and one user is stored
C28_Witness ==
  /\ C28_BothRegistered
  /\ \A c \in Callers : C16_Count(calls[c], "statement") = 2
  /\ {calls[1].resp.status, calls[2].resp.status} = {201, 500}
  /\ Len(users) = 1

\* ---- C29
\* both callers have sent a login of the same user, both found the user and
\* both are answered, the store not having failed
C29_BothLoggedIn ==
  /\ \A c \in Callers :
       /\ calls[c].state = "done" /\ ~calls[c].faulted
       /\ calls[c].op = "loginUser"
       /\ calls[c].resp.status = 200
  /\ calls[1].resp.user.id = calls[2].resp.user.id

\* the token resolves to a user: what a request sent with it would find
C29_Resolves(token) == findUserByToken(DB, token) # NoUser

\* the two returned tokens differ, the user's stored token is one of them,
\* and a request with the other finds no user
C29_OneTokenValid ==
  C29_BothLoggedIn =>
    LET user == calls[1].resp.user.id
        tokens == {calls[1].resp.token, calls[2].resp.token}
    IN /\ Cardinality(tokens) = 2
       /\ users[user].token \in tokens
       /\ Cardinality({t \in tokens : C29_Resolves(t)}) = 1
       /\ \A t \in tokens \ {users[user].token} :
            LET resp == Answer(Request("GET", <<"reports">>, [scheme |-> "Bearer", cred |-> t], EmptyBody)).resp
            IN resp.status = 401 /\ resp.message = "Invalid token"

\* the UPDATE of a login that is answered 200 leaves its token stored, and
\* the token of a login of the same user answered before resolves no more
C29_UpdateWins ==
  \A c \in Callers :
    (/\ calls[c].state = "second" /\ calls[c].op = "loginUser"
     /\ calls'[c].state = "done" /\ calls'[c].resp.status = 200) =>
      /\ users'[calls[c].userId].token = calls'[c].resp.token
      /\ \A d \in Callers \ {c} :
           (/\ calls[d].state = "done" /\ calls[d].op = "loginUser" /\ calls[d].resp.status = 200
            /\ calls[d].resp.user.id = calls[c].userId) =>
             /\ users[calls[c].userId].token = calls[d].resp.token
             /\ \A i \in 1..Len(users') : users'[i].token # calls[d].resp.token

\* C29: two logins of the same user in flight together may both be answered
\* 200; the user's stored token is then the one written by the UPDATE that
\* ran last, the two returned tokens differ, and a request with the other
\* one finds no user (401 "Invalid token"): exactly one of them is valid.
C29_LastLoginWins == [](C29_OneTokenValid) /\ [][C29_UpdateWins]_vars

\* the two logins interleaved: both SELECTs before both UPDATEs, and the
\* login that was answered with the larger UUID is not the one whose token is
\* stored
C29_Witness ==
  /\ C29_BothLoggedIn
  /\ \A c \in Callers : calls[c].trace = <<"handleAuth", "loginUser", "statement", "statement">>
  /\ users[calls[1].resp.user.id].token = randomUUID(calls[1].local)
  /\ calls[1].local < calls[2].local

\* ---- C30
\* C30: POST /reports with the id of a stored report, by its owner or by
\* another user, whatever the list and the sub-documents of the body, is
\* answered 500 and leaves the store as it was: the stored report keeps its
\* owner, its list and its six sub-documents, and no row is added.
C30_DuplicateIdRejected ==
  \A r \in reports : \A i \in 1..Len(users) : \A b \in ReportBodies :
    b.id = r.id =>
      LET out == Answer(Request("POST", <<"reports">>, TokenOf(i), b))
      IN /\ out.resp.status = 500
         /\ out.resp.op = "createReport"
         /\ out.db = DB
         /\ r \in out.db.reports

\* a stored report, its owner and another user: the POST of either with the
\* report's id and other sub-documents is answered 500
C30_Witness ==
  \E r \in reports : \E i \in 1..Len(users) :
    /\ i # r.user_id
    /\ r.user_id \in 1..Len(users)
    /\ \E b \in ReportBodies :
         /\ b.id = r.id /\ b.listaId = 0
         /\ encodedDocs(b).info_general # r.info_general
         /\ Answer(Request("POST", <<"reports">>, TokenOf(i), b)).resp.status = 500
         /\ Answer(Request("POST", <<"reports">>, TokenOf(r.user_id), b)).resp.status = 500

\* ---- C31
\* the list of the report is none, or a stored list
C31_ListStored(D, r) == r.list_id = 0 \/ r.list_id \in ListIds(D)

\* the list of the report is none, or a stored list of the report's owner
C31_ListOfOwner(D, r) ==
  r.list_id = 0 \/ \E l \in D.lists : l.id = r.list_id /\ l.user_id = r.user_id

\* every stored report's list is none or a stored list of its owner
C31_ReportsInOwnLists == \A r \in reports : C31_ListOfOwner(DB, r)

\* POST /reports and PUT /reports/{id} of any caller with any list id leave
\* every report on no list or on a list of its owner
C31_AttachOwnListOnly ==
  \A i \in 1..Len(users) :
    /\ \A b \in ServedReportBodies :
         LET out == Answer(Request("POST", <<"reports">>, TokenOf(i), b))
         IN \A r \in out.db.reports \ reports : C31_ListOfOwner(out.db, r)
    /\ \A p \in {<<"reports", r.id>> : r \in reports} : \A b \in ServedUpdateBodies :
         LET out == Answer(Request("PUT", p, TokenOf(i), b))
         IN \A r \in out.db.reports \ reports : C31_ListOfOwner(out.db, r)

\* DELETE /lists/{id} of a caller leaves the reports of the other users
\* as they were
C31_ListDeletionIsLocal ==
  \A i \in 1..Len(users) : \A l \in lists :
    LET out == Answer(Request("DELETE", <<"lists", ToString(l.id)>>, TokenOf(i), EmptyBody))
    IN \A r \in reports : r.user_id # i => r \in out.db.reports

\* C31: in every reachable state each report's list is none or a stored list
\* owned by the report's owner; creating and updating a report never attach
\* it to a list of another user; a user's deletion of a list changes no
\* report of another user.
C31_ListsArePerUser ==
  /\ C31_ReportsInOwnLists
  /\ C31_AttachOwnListOnly
  /\ C31_ListDeletionIsLocal

\* what the store does guarantee: every report's list is none or a stored
\* list, whoever owns it
C31_ReportListsAreStored == \A r \in reports : C31_ListStored(DB, r)

\* a report on a stored list of another user
C31_Witness ==
  \E r \in reports : \E l \in lists :
    /\ l.id = r.list_id
    /\ l.user_id # r.user_id
    /\ C31_ListStored(DB, r)

====
